---- MODULE Spec2Model ----
(***************************************************************************)
(* Model of jisho_anki_tool: the ranking of dictionary candidates          *)
(* (card_processor.sort_and_limit_words), the candidate dictionaries built *)
(* by jisho_api.search_words_containing_kanji, and the reviewed-kanji      *)
(* lookup of anki/connect.py (get_reviewed_kanji over AnkiConnect).        *)
(*                                                                         *)
(* Strings are sequences of Unicode code points; Python's None is the      *)
(* empty sequence and a present value x is <<x>>; a dict is a function     *)
(* from key names to values.                                               *)
(***************************************************************************)
EXTENDS Integers, Sequences, FiniteSets, TLC

\* ---------------------------------------------------------------- bounds
MaxWords == 3       \* longest candidate list handed to sort_and_limit_words
MaxLimit == 2       \* largest explicit limit besides the default
MaxCards == 2       \* most reviewed cards the Anki deck holds in a session
MaxVocab == 2       \* most cards in the deck VocabularyNew
MaxSelected == 2    \* most words handed to add_vocab_note_to_deck
MaxChars == 2         \* characters of a string handed to is_kanji
MaxWordLen == 3       \* characters of a word on its jisho.org page, and its readings
MaxInput == 4         \* characters of a selection typed by the user
MaxCommands == 3      \* commands read from the prompt in one run of add_during
MaxItems == 3       \* most items in the data list of a Jisho response

\* ------------------------------------------------------ program constants
DefaultLimit == 10  \* card_processor.py: limit: int = 10
KanjiFirst == 19968 \* 0x4E00
KanjiLast == 40959  \* 0x9FFF

\* ------------------------------------------------------------ characters
\* Code points of the characters the inputs are written with.
Ch == [gaku |-> 23398, kou |-> 26657, dai |-> 22823, mon |-> 21839,
       gen |-> 35328, go |-> 35486, bu |-> 12406]

None == <<>>
Some(x) == <<x>>

Min(a, b) == IF a < b THEN a ELSE b
Max(a, b) == IF a < b THEN b ELSE a

RECURSIVE Reverse(_)
Reverse(s) == IF s = <<>> THEN <<>> ELSE Append(Reverse(Tail(s)), Head(s))

\* Sequences over S of length 0..n
SeqUpTo(S, n) == UNION {[1..k -> S] : k \in 0..n}

\* ------------------------------------------------------- Python built-ins
\* str.replace(old, ""): left-to-right removal of non-overlapping matches
RECURSIVE str_remove(_, _)
str_remove(s, old) ==
    IF Len(s) < Len(old) THEN s
    ELSE IF SubSeq(s, 1, Len(old)) = old
         THEN str_remove(SubSeq(s, Len(old) + 1, Len(s)), old)
         ELSE <<Head(s)>> \o str_remove(Tail(s), old)

\* str.isspace() of one character
IsSpace(c) ==
    c \in (9..13) \cup (28..32) \cup {133, 160, 5760} \cup (8192..8202)
          \cup {8232, 8233, 8239, 8287, 12288}

RECURSIVE lstrip(_)
lstrip(s) == IF s # <<>> /\ IsSpace(Head(s)) THEN lstrip(Tail(s)) ELSE s

\* str.strip()
strip(s) == Reverse(lstrip(Reverse(lstrip(s))))

\* Faulty variant: the slice keeps one entry more.
SliceToInclusive(s, limit) ==
    LET stop == IF limit < 0 THEN Max(Len(s) + limit + 1, 0) ELSE Min(limit + 1, Len(s))
    IN SubSeq(s, 1, stop)

\* list[:limit]
SliceTo(s, limit) ==
    LET stop == IF limit < 0 THEN Max(Len(s) + limit, 0) ELSE Min(limit, Len(s))
    IN SubSeq(s, 1, stop)

\* tuple comparison a < b for 2-tuples of integers
TupleLess(a, b) == a[1] < b[1] \/ (a[1] = b[1] /\ a[2] < b[2])

\* ------------------------------------------------------------- is_kanji
\* Faulty variant: the length test is left out, the first character decides.
is_kanji_of_first(char) ==
    char # <<>> /\ KanjiFirst <= char[1] /\ char[1] <= KanjiLast

\* jisho.is_kanji(char), lines 173-182 (jisho_api.is_kanji is the same)
is_kanji(char) ==
    IF Len(char) # 1 THEN FALSE
    ELSE KanjiFirst <= char[1] /\ char[1] <= KanjiLast

\* ------------------------------------------------- more Python built-ins
StartsWith(s, p) == Len(s) >= Len(p) /\ SubSeq(s, 1, Len(p)) = p

\* the text of s before the first occurrence of sep (all of s when none)
RECURSIVE Before(_, _)
Before(s, sep) ==
    IF s = <<>> \/ StartsWith(s, sep) THEN <<>>
    ELSE <<Head(s)>> \o Before(Tail(s), sep)

RECURSIVE DigitsValue(_, _)
DigitsValue(s, acc) ==
    IF s = <<>> THEN acc ELSE DigitsValue(Tail(s), 10 * acc + (Head(s) - 48))

\* int(s) for ASCII input: None stands for ValueError. One underscore may
\* stand between two digits.
int_parse(s) ==
    LET t == strip(s)
        neg == t # <<>> /\ Head(t) = 45
        body == IF t # <<>> /\ Head(t) \in {43, 45} THEN Tail(t) ELSE t
        digits == SelectSeq(body, LAMBDA c : c # 95)
    IN IF \/ body = <<>>
          \/ \E i \in 1..Len(body) : body[i] \notin (48..57) \cup {95}
          \/ body[1] = 95 \/ body[Len(body)] = 95
          \/ \E i \in 1..(Len(body) - 1) : body[i] = 95 /\ body[i + 1] = 95
       THEN None
       ELSE Some(IF neg THEN 0 - DigitsValue(digits, 0) ELSE DigitsValue(digits, 0))

\* str.split(): the runs of characters between whitespace
RECURSIVE split(_)
split(s) ==
    LET t == lstrip(s)
        stops == { i \in 1..Len(t) : IsSpace(t[i]) }
        stop == IF stops = {} THEN Len(t) + 1
                ELSE CHOOSE i \in stops : \A j \in stops : i <= j
    IN IF t = <<>> THEN <<>>
       ELSE <<SubSeq(t, 1, stop - 1)>> \o split(SubSeq(t, stop, Len(t)))

\* sep.join(parts)
RECURSIVE join(_, _)
join(sep, parts) ==
    IF parts = <<>> THEN <<>>
    ELSE IF Len(parts) = 1 THEN parts[1]
    ELSE parts[1] \o sep \o join(sep, Tail(parts))

\* dict.get(key, default)
Get(d, key, default) == IF key \in DOMAIN d THEN d[key] ELSE default

\* -------------------------------------------------- Jisho API result data
JlptN == <<106, 108, 112, 116, 45, 110>>      \* "jlpt-n"
SemiSp == <<59, 32>>                          \* "; "

JlptTag(n) == JlptN \o <<48 + n>>

Item(word, reading, jlpt, defs) ==
    [japanese |-> <<[word |-> word, reading |-> reading]>>,
     jlpt |-> jlpt,
     senses |-> [i \in 1..Len(defs) |-> [english_definitions |-> defs[i]]]]

\* The "data" list of a Jisho search response, in API (relevance) order:
\* gakumon, gakkou (N5), gengo (N2), daigaku (N5), gaku (N3, N1), manabu (N4)
JishoData ==
    << Item(<<23398, 21839>>, <<12364, 12367, 12418, 12435>>,
            <<>>,
            <<<<<<108, 101, 97, 114, 110, 105, 110, 103>>>>>>),
       Item(<<23398, 26657>>, <<12364, 12387, 12371, 12358>>,
            <<JlptTag(5)>>,
            <<<<<<115, 99, 104, 111, 111, 108>>>>>>),
       Item(<<35328, 35486>>, <<12370, 12435, 12372>>,
            <<JlptTag(2)>>,
            <<<<<<108, 97, 110, 103, 117, 97, 103, 101>>>>>>),
       Item(<<22823, 23398>>, <<12384, 12356, 12364, 12367>>,
            <<JlptTag(5)>>,
            <<<<<<117, 110, 105, 118, 101, 114, 115, 105, 116, 121>>, <<99, 111, 108, 108, 101, 103, 101>>>>>>),
       Item(<<23398>>, <<12364, 12367>>,
            <<JlptTag(3), JlptTag(1)>>,
            <<<<<<108, 101, 97, 114, 110, 105, 110, 103>>>>, <<<<115, 116, 117, 100, 121>>>>>>),
       Item(<<23398, 12406>>, <<12414, 12394, 12406>>,
            <<JlptTag(4)>>,
            <<<<<<116, 111, 32, 115, 116, 117, 100, 121>>>>>>) >>

\* jisho_api.search_words_containing_kanji, lines 112-123: the JLPT level
RECURSIVE jlpt_level(_)
jlpt_level(jlpt_data) ==
    IF jlpt_data = <<>> THEN None
    ELSE LET level == Head(jlpt_data)
             n == IF StartsWith(level, JlptN)
                  THEN int_parse(Before(SubSeq(level, Len(JlptN) + 1, Len(level)), JlptN))
                  ELSE None
         IN IF n # None THEN n ELSE jlpt_level(Tail(jlpt_data))

\* lines 135-139: the other kanji of a word
other_kanji(word, kanji) ==
    SelectSeq(word, LAMBDA char : <<char>> # kanji /\ is_kanji(<<char>>))

\* lines 103-151: the result dictionary of one API item
BuildResult(item, kanji) ==
    LET japanese_data == item.japanese[1]
        word == Get(japanese_data, "word", Get(japanese_data, "reading", <<>>))
        senses == SubSeq(Get(item, "senses", <<>>), 1,
                         Min(3, Len(Get(item, "senses", <<>>))))
        joined == [i \in 1..Len(senses) |->
                     IF "english_definitions" \in DOMAIN senses[i]
                     THEN join(SemiSp, senses[i].english_definitions) ELSE <<>>]
        definitions == SelectSeq(joined, LAMBDA definition : definition # <<>>)
    IN [word |-> word,
        reading |-> Get(japanese_data, "reading", <<>>),
        jlpt |-> jlpt_level(Get(item, "jlpt", <<>>)),
        definitions |-> definitions,
        other_kanji |-> other_kanji(word, kanji),
        meaning |-> IF definitions # <<>> THEN definitions[1] ELSE <<>>]

\* `sub in s` for strings
RECURSIVE Contains(_, _)
Contains(s, sub) ==
    IF Len(s) < Len(sub) THEN FALSE
    ELSE StartsWith(s, sub) \/ Contains(Tail(s), sub)

\* The request of fetch_jisho_word_search: ok says whether Jisho answers
\* with JSON; raised stands for the Exception of jisho.py lines 46 and 48.
fetch_jisho_word_search(ok, response) ==
    IF ok THEN [raised |-> FALSE, data |-> response]
    ELSE [raised |-> TRUE, data |-> <<>>]

\* lines 123-124 (jisho.py) and 100-101 (jisho_api.py): the item has
\* Japanese data
has_japanese(item) == "japanese" \in DOMAIN item /\ item.japanese # <<>>

\* lines 127-128: the first Japanese form, its reading when it has no word
word_of(item) ==
    Get(item.japanese[1], "word", Get(item.japanese[1], "reading", <<>>))

\* Faulty variant: the kanji is looked for in no form at all.
is_listed_any(item, kanji) == has_japanese(item)

\* lines 122-133: the items the loop does not skip
is_listed(item, kanji) == has_japanese(item) /\ Contains(word_of(item), kanji)

\* jisho_api.search_words_containing_kanji(kanji), lines 86-155
api_search_words_containing_kanji(kanji, ok, response) ==
    IF kanji = <<>> THEN [raised |-> FALSE, requested |-> FALSE, value |-> <<>>]
    ELSE LET data == fetch_jisho_word_search(ok, response)
         IN IF data.raised
            THEN [raised |-> TRUE, requested |-> TRUE, value |-> <<>>]
            ELSE IF "data" \notin DOMAIN data.data
            THEN [raised |-> FALSE, requested |-> TRUE, value |-> <<>>]
            ELSE LET listed == SelectSeq(data.data.data,
                                         LAMBDA item : is_listed(item, kanji))
                 IN [raised |-> FALSE, requested |-> TRUE,
                     value |-> [i \in 1..Len(listed) |-> BuildResult(listed[i], kanji)]]

\* ------------------------------------------------------------- jisho.py
\* line 151: item["senses"][:3]
top_senses(item) == SliceTo(Get(item, "senses", <<>>), 3)

\* lines 152 and 155: one definition string for each of the senses
definitions_of(senses) ==
    [i \in 1..Len(senses) |-> join(SemiSp, Get(senses[i], "english_definitions", <<>>))]

\* Faulty variant: a sense without part of speech adds no entry.
parts_of_speech_given(senses) ==
    SelectSeq([i \in 1..Len(senses) |->
                  join(SemiSp, Get(senses[i], "parts_of_speech", <<>>))],
              LAMBDA pos : pos # <<>>)

\* lines 153 and 156: one part-of-speech string for each of the senses
parts_of_speech_of(senses) ==
    [i \in 1..Len(senses) |-> join(SemiSp, Get(senses[i], "parts_of_speech", <<>>))]

\* lines 135-166: the JishoWord built from one API item
JishoWord(item) ==
    LET japanese_data == item.japanese[1]
        level == jlpt_level(Get(item, "jlpt", <<>>))
        senses == top_senses(item)
    IN [expression |-> word_of(item),
        kana |-> Get(japanese_data, "reading", <<>>),
        jlpt |-> IF level = None THEN 0 ELSE level[1],
        definitions |-> definitions_of(senses),
        parts_of_speech |-> parts_of_speech_of(senses)]

\* jisho.search_words_containing_kanji(kanji), lines 109-170. requested
\* says whether the API was asked.
search_words_containing_kanji(kanji, ok, response) ==
    IF kanji = <<>> THEN [raised |-> FALSE, requested |-> FALSE, value |-> <<>>]
    ELSE LET data == fetch_jisho_word_search(ok, response)
         IN IF data.raised
            THEN [raised |-> TRUE, requested |-> TRUE, value |-> <<>>]
            ELSE IF "data" \notin DOMAIN data.data
            THEN [raised |-> FALSE, requested |-> TRUE, value |-> <<>>]
            ELSE LET listed == SelectSeq(data.data.data,
                                         LAMBDA item : is_listed(item, kanji))
                 IN [raised |-> FALSE, requested |-> TRUE,
                     value |-> [i \in 1..Len(listed) |-> JishoWord(listed[i])]]

\* ------------------------------------------------------------ AnkiConnect
TagDiv == <<60, 100, 105, 118, 62>>           \* "<div>"
TagDivEnd == <<60, 47, 100, 105, 118, 62>>    \* "</div>"
TagBr == <<60, 98, 114, 62>>                  \* "<br>"

\* A card as cardsInfo returns it, reduced to its Kanji field.
KanjiCard(value) == [fields |-> [Kanji |-> [value |-> value, order |-> 0]]]
\* A card of another note type: no Kanji field.
OtherCard == [fields |-> [Front |-> [value |-> <<Ch.kou>>, order |-> 0]]]
\* A card whose Kanji field carries no value.
BrokenCard == [fields |-> [Kanji |-> [order |-> 0]]]

\* JSON null, Python None
JsonNull == [type |-> "null"]
JsonString(text) == [type |-> "string", text |-> text]

\* Faulty variant: every value other than None counts as an error.
is_not_none(value) == value.type # "null"

\* line 39: the truth value of data.get("error")
truthy(value) ==
    CASE value.type = "null" -> FALSE
      [] value.type = "string" -> value.text # <<>>
      [] value.type = "list" -> value.items # <<>>

\* send_request(action, **params), lines 32-46, on one HTTP exchange:
\* failure names the requests.RequestException of requests.post,
\* raise_for_status or response.json ("none" when there is none), data is
\* the JSON object of the response. error and message describe the
\* exception raised: that of line 40 passes the except clause of line 43,
\* which catches requests.RequestException only.
send_request_exchange(exchange) ==
    IF exchange.failure # "none"
    THEN [raised |-> TRUE, error |-> "Exception",
          message |-> <<"Failed to connect to Anki: ", exchange.failure>>,
          result |-> <<>>]
    ELSE IF truthy(Get(exchange.data, "error", JsonNull))
    THEN [raised |-> TRUE, error |-> "Exception",
          message |-> <<"AnkiConnect error: ", exchange.data.error>>,
          result |-> <<>>]
    ELSE [raised |-> FALSE, error |-> "none", message |-> <<>>,
          result |-> Get(exchange.data, "result", JsonNull)]

\* send_request(action, **params): ok says whether AnkiConnect answers
\* without error, and then result is the result field of its answer;
\* raised stands for the Exception of lines 40 and 44.
send_request(ok, result) ==
    send_request_exchange(
        IF ok THEN [failure |-> "none", data |-> [result |-> result, error |-> JsonNull]]
        ELSE [failure |-> "ConnectionError", data |-> [error |-> JsonNull]])

\* get_reviewed_kanji, lines 288-299: the loop over cards_info, from card i
\* on, with the set built so far; raised stands for the KeyError of line 290.
RECURSIVE ExtractKanji(_, _, _)
ExtractKanji(cards_info, i, reviewed_kanji) ==
    IF i > Len(cards_info) THEN [raised |-> FALSE, set |-> reviewed_kanji]
    ELSE LET card == cards_info[i]
         IN IF "fields" \in DOMAIN card /\ "Kanji" \in DOMAIN card.fields
            THEN IF "value" \notin DOMAIN card.fields.Kanji
                 THEN [raised |-> TRUE, set |-> reviewed_kanji]
                 ELSE LET kanji == strip(str_remove(str_remove(str_remove(
                                       card.fields.Kanji.value,
                                       TagDiv), TagDivEnd), TagBr))
                      IN ExtractKanji(cards_info, i + 1,
                             IF kanji # <<>> /\ Len(kanji) = 1
                             THEN reviewed_kanji \cup {kanji}
                             ELSE reviewed_kanji)
            ELSE ExtractKanji(cards_info, i + 1, reviewed_kanji)

\* get_reviewed_kanji, lines 273-301: the try block. net tells which
\* requests succeed, cards is the list of reviewed cards Anki holds. raised
\* says that an exception left the block, failed names the step that raised
\* and partial is the set built until then.
try_get_reviewed_kanji(net, cards) ==
    LET found == send_request(net.findCards, [i \in 1..Len(cards) |-> i])
    IN IF found.raised
       THEN [raised |-> TRUE, value |-> {}, failed |-> "findCards", partial |-> {}]
       ELSE IF found.result = <<>>
       THEN [raised |-> FALSE, value |-> {}, failed |-> "none", partial |-> {}]
       ELSE LET info == send_request(net.cardsInfo,
                            [i \in 1..Len(found.result) |-> cards[found.result[i]]])
            IN IF info.raised
               THEN [raised |-> TRUE, value |-> {}, failed |-> "cardsInfo",
                     partial |-> {}]
               ELSE LET got == ExtractKanji(info.result, 1, {})
                    IN [raised |-> got.raised,
                        value |-> IF got.raised THEN {} ELSE got.set,
                        failed |-> IF got.raised THEN "extract" ELSE "none",
                        partial |-> got.set]

\* Faulty variant: the set built before the failure is returned.
except_keeps_partial(tried) == [tried EXCEPT !.raised = FALSE, !.value = tried.partial]

\* lines 302-305: the except clause returns a new empty set
except_clause(tried) == [tried EXCEPT !.raised = FALSE, !.value = {}]

\* get_reviewed_kanji(), lines 261-305
get_reviewed_kanji(net, cards) ==
    LET tried == try_get_reviewed_kanji(net, cards)
    IN IF tried.raised THEN except_clause(tried) ELSE tried

\* ------------------------------------------------------ get_reviewed_vocab
RubyTag == <<60, 114, 117, 98, 121, 62>>      \* "<ruby>"
RtTag == <<60, 114, 116, 62>>                 \* "<rt>"
RtRubyEnd == <<60, 47, 114, 116, 62, 60, 47, 114, 117, 98, 121, 62>> \* "</rt></ruby>"

\* t occurs in s at position p
OccursAt(s, p, t) == p + Len(t) - 1 <= Len(s) /\ SubSeq(s, p, p + Len(t) - 1) = t

\* what `.` can match: no line feed
NoNewline(s) == \A i \in 1..Len(s) : s[i] # 10

SetMin(S) == CHOOSE x \in S : \A y \in S : x <= y

\* lines 344-349: re.search(r"<ruby>(.*?)<rt>.*?</rt></ruby>", s), group(1)
\* of the match or None. The search takes the leftmost "<ruby>" from which
\* the pattern matches and, from there, the nearest "<rt>" after which a
\* "</rt></ruby>" follows on the same line.
ruby_search(s) ==
    LET closes(e) == \E c \in (e + Len(RtTag))..Len(s) :
                        /\ OccursAt(s, c, RtRubyEnd)
                        /\ NoNewline(SubSeq(s, e + Len(RtTag), c - 1))
        ends(p) == { e \in (p + Len(RubyTag))..Len(s) :
                        /\ OccursAt(s, e, RtTag)
                        /\ NoNewline(SubSeq(s, p + Len(RubyTag), e - 1))
                        /\ closes(e) }
        starts == { p \in 1..Len(s) : OccursAt(s, p, RubyTag) /\ ends(p) # {} }
    IN IF starts = {} THEN None
       ELSE LET p == SetMin(starts)
            IN Some(SubSeq(s, p + Len(RubyTag), SetMin(ends(p)) - 1))

\* lines 350-352: re.search(r"<[^>]+>", s) finds a tag
has_tag(s) ==
    \E i \in 1..Len(s) : \E j \in (i + 2)..Len(s) :
        /\ s[i] = 60
        /\ s[j] = 62
        /\ \A k \in (i + 1)..(j - 1) : s[k] # 62

\* lines 335-340: the Front value without wrapper tags
front_cleaned(front_html_raw) ==
    strip(str_remove(str_remove(str_remove(front_html_raw, TagDiv), TagDivEnd), TagBr))

\* lines 342-354: the word of a cleaned Front value, None when there is none
word_of_front(front_html_cleaned) ==
    LET ruby_match == ruby_search(front_html_cleaned)
    IN IF ruby_match # None THEN Some(strip(ruby_match[1]))
       ELSE IF ~has_tag(front_html_cleaned) THEN Some(front_html_cleaned)
       ELSE None

\* Faulty variant: only None is left out.
is_word_given(word) == word # None

\* line 357: if word (neither None nor the empty string)
is_word(word) == word # None /\ word[1] # <<>>

\* lines 329-358: the loop over cards_info, from card i on, with the list
\* built so far; raised stands for the KeyError of line 331.
RECURSIVE ExtractVocab(_, _, _)
ExtractVocab(cards_info, i, reviewed_vocab) ==
    IF i > Len(cards_info) THEN [raised |-> FALSE, list |-> reviewed_vocab]
    ELSE LET card == cards_info[i]
         IN IF "fields" \in DOMAIN card /\ "Front" \in DOMAIN card.fields
            THEN IF "value" \notin DOMAIN card.fields.Front
                 THEN [raised |-> TRUE, list |-> reviewed_vocab]
                 ELSE LET word == word_of_front(front_cleaned(card.fields.Front.value))
                      IN ExtractVocab(cards_info, i + 1,
                             IF is_word(word) THEN Append(reviewed_vocab, word[1])
                             ELSE reviewed_vocab)
            ELSE ExtractVocab(cards_info, i + 1, reviewed_vocab)

\* get_reviewed_vocab, lines 317-360: the try block. raised says that an
\* exception left the block, failed names the step that raised and partial
\* is the list built until then.
try_get_reviewed_vocab(net, cards) ==
    LET found_cards == send_request(net.findCards, [i \in 1..Len(cards) |-> i])
    IN IF found_cards.raised
       THEN [raised |-> TRUE, value |-> <<>>, failed |-> "findCards", partial |-> <<>>]
       ELSE IF found_cards.result = <<>>
       THEN [raised |-> FALSE, value |-> <<>>, failed |-> "none", partial |-> <<>>]
       ELSE LET info == send_request(net.cardsInfo,
                            [i \in 1..Len(found_cards.result) |->
                                cards[found_cards.result[i]]])
            IN IF info.raised
               THEN [raised |-> TRUE, value |-> <<>>, failed |-> "cardsInfo",
                     partial |-> <<>>]
               ELSE LET got == ExtractVocab(info.result, 1, <<>>)
                    IN [raised |-> got.raised,
                        value |-> IF got.raised THEN <<>> ELSE got.list,
                        failed |-> IF got.raised THEN "extract" ELSE "none",
                        partial |-> got.list]

\* lines 361-365: the except clause returns a new empty list
vocab_except_clause(tried) == [tried EXCEPT !.raised = FALSE, !.value = <<>>]

\* get_reviewed_vocab(), lines 308-365
get_reviewed_vocab(net, cards) ==
    LET tried == try_get_reviewed_vocab(net, cards)
    IN IF tried.raised THEN vocab_except_clause(tried) ELSE tried

\* ------------------------------------------- fetch_jisho_word_furigana
HiraganaFirst == 12352 \* 0x3040
HiraganaLast == 12447  \* 0x309F

\* jisho.is_hiragana(char), lines 185-193
is_hiragana(char) ==
    IF Len(char) # 1 THEN FALSE
    ELSE HiraganaFirst <= char[1] /\ char[1] <= HiraganaLast

\* str.strip(chars)
RECURSIVE lstrip_chars(_, _)
lstrip_chars(s, chars) ==
    IF s # <<>> /\ Head(s) \in chars THEN lstrip_chars(Tail(s), chars) ELSE s

strip_chars(s, chars) == Reverse(lstrip_chars(Reverse(lstrip_chars(s, chars)), chars))

\* lines 76-87: the loop over characters from position i on, with the text
\* built so far and the index of the next furigana; raised stands for the
\* Exception of line 84.
RECURSIVE anki_format_from(_, _, _, _, _)
anki_format_from(characters, furigana, i, anki_format, furigana_idx) ==
    IF i > Len(characters) THEN [raised |-> FALSE, value |-> anki_format]
    ELSE LET c == <<characters[i]>>
         IN IF is_kanji(c)
            THEN anki_format_from(characters, furigana, i + 1,
                     anki_format \o c \o <<91>> \o furigana[furigana_idx] \o <<93>>,
                     furigana_idx + 1)
            ELSE IF is_hiragana(c)
            THEN anki_format_from(characters, furigana, i + 1,
                     anki_format \o c \o <<32>>, furigana_idx)
            ELSE [raised |-> TRUE, value |-> <<>>]

\* Faulty variant: the furigana is never matched to the single kanji.
fetch_jisho_word_furigana_whole(ok, page) ==
    IF ~ok \/ page = None THEN [raised |-> TRUE, value |-> <<>>]
    ELSE [raised |-> FALSE,
          value |-> strip_chars(page[1].text, {32, 10}) \o <<91>>
                      \o join(<<>>, page[1].kanji) \o <<93>>]

\* jisho.fetch_jisho_word_furigana(word), lines 51-87. ok says whether
\* jisho.org answers; page is what the answer holds for the word: None
\* when it has no div.concept_light-representation, else the text of
\* span.text and the texts of the span.kanji elements. raised stands for a
\* failed request, the IndexError of line 64 and the Exception of line 84.
fetch_jisho_word_furigana(ok, page) ==
    IF ~ok \/ page = None THEN [raised |-> TRUE, value |-> <<>>]
    ELSE LET characters == strip_chars(page[1].text, {32, 10})
             furigana == page[1].kanji
             kanji_count == Len(SelectSeq(characters, LAMBDA c : is_kanji(<<c>>)))
         IN IF Len(furigana) # kanji_count
            THEN [raised |-> FALSE,
                  value |-> characters \o <<91>> \o join(<<>>, furigana) \o <<93>>]
            ELSE anki_format_from(characters, furigana, 1, <<>>, 1)

\* ----------------------------------------------------------- prepare_note
\* str(n) for an integer
RECURSIVE digits_of(_)
digits_of(n) ==
    IF n < 10 THEN <<48 + n>> ELSE Append(digits_of(n \div 10), 48 + (n % 10))

str_of_int(n) == IF n < 0 THEN <<45>> \o digits_of(0 - n) ELSE digits_of(n)

JlptLabel == <<74, 76, 80, 84, 32, 78>>       \* "JLPT N"

\* connect.prepare_note(word), lines 163-187, with the result of its call
\* of fetch_jisho_word_furigana. raised stands for an exception of that
\* call and for the IndexError of lines 170 and 180 on a word without
\* definition or part of speech.
prepare_note(word, front) ==
    IF front.raised \/ word.definitions = <<>> \/ word.parts_of_speech = <<>>
    THEN [raised |-> TRUE, note |-> <<>>]
    ELSE [raised |-> FALSE,
          note |-> [modelName |-> "MyJapaneseVocabulary",
                    fields |-> [n \in {"Front", "Back", "Expression", "Kana Reading",
                                       "Grammar", "Definition",
                                       "Additional Definitions", "JLPT"} |->
                        CASE n = "Front" -> front.value
                          [] n = "Back" -> word.definitions[1]
                          [] n = "Expression" -> word.expression
                          [] n = "Kana Reading" -> word.kana
                          [] n = "Grammar" -> word.parts_of_speech[1]
                          [] n = "Definition" -> word.definitions[1]
                          [] n = "Additional Definitions" ->
                                 join(<<10>>, Tail(word.definitions))
                          [] n = "JLPT" -> JlptLabel \o str_of_int(word.jlpt)],
                    tags |-> <<"jisho-anki-tool v2">>,
                    options |-> [allowDuplicate |-> FALSE]]]

\* ------------------------------------------------- add_vocab_note_to_deck
\* A request as AnkiConnect receives it.
Request(action, notes) == [action |-> action, notes |-> notes]

\* Faulty variant: the duplicates are the notes kept.
addable_notes_inverted(notes, can_add_result) ==
    LET kept == { i \in 1..Len(notes) : ~can_add_result[i] }
        nth(k) == CHOOSE i \in kept : Cardinality({ j \in kept : j < i }) = k - 1
    IN [k \in 1..Cardinality(kept) |-> notes[nth(k)]]

\* line 217: [note for i, note in enumerate(notes) if can_add_result[i]]
addable_notes(notes, can_add_result) ==
    LET kept == { i \in 1..Len(notes) : can_add_result[i] }
        nth(k) == CHOOSE i \in kept : Cardinality({ j \in kept : j < i }) = k - 1
    IN [k \in 1..Cardinality(kept) |-> notes[nth(k)]]

\* add_non_duplicate_notes(notes), lines 206-230. net tells which requests
\* succeed and can_add_result is the answer of canAddNotes; sent lists the
\* requests made, raised says that one of them raised.
add_non_duplicate_notes(notes, net, can_add_result) ==
    LET asked == send_request(net.canAddNotes, can_add_result)
        notes_to_add == addable_notes(notes, asked.result)
        duplicates_count == Len(notes) - Len(notes_to_add)
    IN IF asked.raised
       THEN [raised |-> TRUE, sent |-> <<Request("canAddNotes", notes)>>,
             added_count |-> 0, duplicates_count |-> 0]
       ELSE IF notes_to_add = <<>>
       THEN [raised |-> FALSE, sent |-> <<Request("canAddNotes", notes)>>,
             added_count |-> 0, duplicates_count |-> duplicates_count]
       ELSE [raised |-> send_request(net.addNotes, <<>>).raised,
             sent |-> <<Request("canAddNotes", notes),
                        Request("addNotes", notes_to_add)>>,
             added_count |-> Len(notes_to_add),
             duplicates_count |-> duplicates_count]

\* lines 243-252: the summary printed after the requests
summary(added_count, duplicates_count) ==
    IF duplicates_count > 0 /\ added_count > 0 THEN "added and skipped"
    ELSE IF duplicates_count > 0 THEN "skipped"
    ELSE IF added_count > 0 THEN "added"
    ELSE "none"

\* lines 234-237: the calls of prepare_note the list comprehension makes
\* for the first n words, as events
preparations(n) == [i \in 1..n |-> [kind |-> "prepare_note", index |-> i]]

\* the requests sent to Anki, as events
requests(sent) == [r \in 1..Len(sent) |-> [kind |-> sent[r].action, index |-> r]]

\* Faulty variant: Anki is asked before the notes are prepared.
requests_first(prepared, sent) == requests(sent) \o preparations(prepared)

\* lines 234-240: the list comprehension is complete when
\* add_non_duplicate_notes is called
call_order(prepared, sent) == preparations(prepared) \o requests(sent)

\* lines 254-257: the except clause, entered with the exception raised at
\* the step named by original. Line 256 calls join on a list, which has no
\* such attribute: an AttributeError leaves the clause and the raise of
\* line 257 is not reached.
except_add_vocab(original) ==
    [raised |-> TRUE, error |-> "AttributeError",
     message |-> <<"'list' object has no attribute 'join'">>,
     printed |-> "Something went wrong! Dumping words to console:"]

\* connect.add_vocab_note_to_deck(selected_words, deckname), lines 190-257.
\* pages gives the jisho.org page of every selected word. prepared lists
\* the notes of lines 234-237, events the calls of prepare_note and the
\* requests to Anki in the order they were made; error and message
\* describe the exception that leaves the call.
add_vocab_note_to_deck(selected_words, deckname, net, pages, can_add_result) ==
    IF selected_words = <<>>
    THEN [raised |-> FALSE, error |-> "none", message |-> <<>>,
          sent |-> <<>>, prepared |-> <<>>, events |-> <<>>,
          added_count |-> 0, duplicates_count |-> 0, printed |-> "nothing"]
    ELSE LET tried == [i \in 1..Len(selected_words) |->
                          prepare_note(selected_words[i],
                              fetch_jisho_word_furigana(net.furigana, pages[i]))]
             prepared_notes == [i \in 1..Len(tried) |-> tried[i].note]
             failing == { i \in 1..Len(tried) : tried[i].raised }
         IN IF failing # {}
            THEN except_add_vocab("prepare_note")
                   @@ [sent |-> <<>>, prepared |-> <<>>,
                       events |-> call_order(SetMin(failing), <<>>),
                       added_count |-> 0, duplicates_count |-> 0]
            ELSE LET counts == add_non_duplicate_notes(prepared_notes, net,
                                                       can_add_result)
                 IN IF counts.raised
                    THEN except_add_vocab(counts.sent[Len(counts.sent)].action)
                           @@ [sent |-> counts.sent, prepared |-> prepared_notes,
                               events |-> call_order(Len(tried), counts.sent),
                               added_count |-> 0, duplicates_count |-> 0]
                    ELSE [raised |-> FALSE, error |-> "none", message |-> <<>>,
                          sent |-> counts.sent, prepared |-> prepared_notes,
                          events |-> call_order(Len(tried), counts.sent),
                          added_count |-> counts.added_count,
                          duplicates_count |-> counts.duplicates_count,
                          printed |-> summary(counts.added_count,
                                              counts.duplicates_count)]

\* -------------------------------------------------------- parse_selection
\* Faulty variant: the loop ends at the first part that is no integer.
RECURSIVE parse_parts_until_error(_)
parse_parts_until_error(parts) ==
    IF parts = <<>> THEN <<>>
    ELSE LET num == int_parse(strip(Head(parts)))
         IN IF num = None THEN <<>>
            ELSE <<num[1]>> \o parse_parts_until_error(Tail(parts))

\* utils.parse_selection, lines 112-119: the loop over parts; a ValueError
\* of int skips the part
RECURSIVE parse_parts(_)
parse_parts(parts) ==
    IF parts = <<>> THEN <<>>
    ELSE LET num == int_parse(strip(Head(parts)))
         IN IF num = None THEN parse_parts(Tail(parts))
            ELSE <<num[1]>> \o parse_parts(Tail(parts))

\* lines 107-121: the body of the try statement. An argument that is no
\* string has no split: raised stands for that AttributeError.
try_parse_selection(input_str) ==
    IF input_str.type # "str" THEN [raised |-> TRUE, value |-> <<>>]
    ELSE [raised |-> FALSE, value |-> parse_parts(split(input_str.text))]

\* lines 122-124: except Exception returns an empty list
parse_selection_except(tried) ==
    IF tried.raised THEN [raised |-> FALSE, value |-> <<>>] ELSE tried

\* line 104: not input_str, for a string, None or an integer
is_falsy(input_str) ==
    CASE input_str.type = "str" -> input_str.text = <<>>
      [] input_str.type = "None" -> TRUE
      [] input_str.type = "int" -> input_str.n = 0

\* utils.parse_selection(input_str), lines 94-124
parse_selection(input_str) ==
    IF is_falsy(input_str) THEN [raised |-> FALSE, value |-> <<>>]
    ELSE parse_selection_except(try_parse_selection(input_str))

\* ------------------------------------------------- process_word_selection
\* Faulty variant: a word that is already pending is not appended again.
RECURSIVE select_words_once(_, _, _)
select_words_once(selected_indices, displayed_words, pending_words) ==
    IF selected_indices = <<>> THEN pending_words
    ELSE LET idx == Head(selected_indices)
             taken == /\ 1 <= idx /\ idx <= Len(displayed_words)
                      /\ \A i \in 1..Len(pending_words) :
                            pending_words[i] # displayed_words[idx]
         IN select_words_once(Tail(selected_indices), displayed_words,
                IF taken THEN Append(pending_words, displayed_words[idx])
                ELSE pending_words)

\* cli.process_word_selection, lines 125-131: the loop over selected_indices
RECURSIVE select_words(_, _, _)
select_words(selected_indices, displayed_words, pending_words) ==
    IF selected_indices = <<>> THEN pending_words
    ELSE LET idx == Head(selected_indices)
         IN select_words(Tail(selected_indices), displayed_words,
                IF 1 <= idx /\ idx <= Len(displayed_words)
                THEN Append(pending_words, displayed_words[idx])
                ELSE pending_words)

\* cli.process_word_selection(displayed_words, pending_words, selection),
\* lines 103-141: the pending list after the call, which is the list
\* returned. parse_selection raises nothing, the except clause of line
\* 138 is never entered.
process_word_selection(displayed_words, pending_words, selection) ==
    IF displayed_words = <<>> THEN pending_words
    ELSE select_words(parse_selection([type |-> "str", text |-> selection,
                                       n |-> 0]).value,
                      displayed_words, pending_words)

\* -------------------------------------------------------------- add_during
\* str.lower() for ASCII text
lower(text) ==
    [i \in 1..Len(text) |-> IF text[i] \in 65..90 THEN text[i] + 32 ELSE text[i]]

\* anki_connect.add_words_to_deck(selected_words), lines 153-233, as the
\* caller sees it: nothing is sent for an empty list; reached says whether
\* the notes got to Anki, raised stands for the Exception of line 233.
add_words_to_deck(selected_words, up) ==
    IF selected_words = <<>> THEN [raised |-> FALSE, reached |-> FALSE]
    ELSE [raised |-> ~up, reached |-> up]

\* Faulty variant: the pending list is offered without the test of line 151.
add_pending_words_unguarded(pending_words, should_add, up) ==
    IF ~should_add THEN [raised |-> FALSE, calls |-> <<>>]
    ELSE [raised |-> add_words_to_deck(pending_words, up).raised,
          calls |-> <<[words |-> pending_words, should_add |-> should_add,
                       reached |-> add_words_to_deck(pending_words, up).reached]>>]

\* cli.add_pending_words_to_anki(pending_words), lines 144-158. should_add
\* is the answer to click.confirm; calls lists the calls of
\* anki_connect.add_words_to_deck that were made.
add_pending_words_to_anki(pending_words, should_add, up) ==
    IF pending_words = <<>> THEN [raised |-> FALSE, calls |-> <<>>]
    ELSE IF ~should_add THEN [raised |-> FALSE, calls |-> <<>>]
    ELSE [raised |-> add_words_to_deck(pending_words, up).raised,
          calls |-> <<[words |-> pending_words, should_add |-> should_add,
                       reached |-> add_words_to_deck(pending_words, up).reached]>>]

\* anki_connect.get_current_card(), lines 64-81: the card under review,
\* None when there is none or get_card_info finds nothing; raised stands
\* for the Exception of send_request("guiCurrentCard").
get_current_card(anki) ==
    IF ~anki.up THEN [raised |-> TRUE, value |-> None]
    ELSE IF anki.reviewing = None \/ ~anki.info THEN [raised |-> FALSE, value |-> None]
    ELSE [raised |-> FALSE, value |-> anki.reviewing]

\* cli.fetch_and_display_words(kanji), lines 25-38: the module jisho_api
\* has no attribute search_words, line 38 raises AttributeError.
fetch_and_display_words(kanji) ==
    [raised |-> TRUE, error |-> "AttributeError", value |-> <<>>]

\* line 287: "front" in f.lower(), for the field names of the cards drawn
contains_front(f) == f \in {"Front", "front", "FrontSide"}

\* Faulty variant: without a card the table of words is cleared.
without_card_cleared(displayed_words) == <<[word |-> <<>>, reading |-> <<>>]>>

\* lines 281-283: without a card the loop continues, displayed_words is
\* not assigned
without_card(displayed_words) == displayed_words

\* add_during, lines 278-303: the command 'n'. Gives what ends the handling
\* ("continue", or the exception raised) and the local variables after it.
next_card(displayed_words, current_kanji, anki) ==
    LET got == get_current_card(anki)
        card == got.value
        fields == IF card = None THEN <<>> ELSE Get(card[1], "fields", <<>>)
        front_fields == { f \in DOMAIN fields : contains_front(f) }
        front_field == CHOOSE f \in front_fields : TRUE
        kanji_value == Get(fields[front_field], "value", <<>>)
        same == [displayed_words |-> displayed_words, current_kanji |-> current_kanji]
    IN IF anki.interrupt THEN [outcome |-> "KeyboardInterrupt", card |-> None] @@ same
       ELSE IF got.raised THEN [outcome |-> "Exception", card |-> None] @@ same
       ELSE IF card = None
       THEN [outcome |-> "continue", card |-> card,
             displayed_words |-> without_card(displayed_words),
             current_kanji |-> current_kanji]
       ELSE IF front_fields = {} \/ kanji_value = <<>>
       THEN [outcome |-> "continue", card |-> card] @@ same
       ELSE LET shown == fetch_and_display_words(<<kanji_value[1]>>)
            IN IF shown.raised
               THEN [outcome |-> "Exception", card |-> card,
                     displayed_words |-> displayed_words,
                     current_kanji |-> Some(<<kanji_value[1]>>)]
               ELSE [outcome |-> "continue", card |-> card,
                     displayed_words |-> shown.value,
                     current_kanji |-> Some(<<kanji_value[1]>>)]

\* add_during, lines 272-307: one pass of the loop on a command read from
\* the prompt. anki is Anki and the user during the pass: whether Anki
\* answers, the card under review, the answer to click.confirm, and
\* whether Ctrl-C arrives during the first request made to Anki. calls
\* lists the calls of add_words_to_deck.
handle_command(command, pending_words, displayed_words, current_kanji, card, anki) ==
    LET same == [pending_words |-> pending_words, displayed_words |-> displayed_words,
                 current_kanji |-> current_kanji, card |-> card]
    IN IF lower(command) = <<113>>
       THEN LET adding == add_pending_words_to_anki(pending_words, anki.confirm, anki.up)
            IN [outcome |-> IF adding.calls # <<>> /\ adding.calls[1].words # <<>>
                                  /\ anki.interrupt
                            THEN "KeyboardInterrupt"
                            ELSE IF adding.raised THEN "Exception" ELSE "break",
                calls |-> adding.calls] @@ same
       ELSE IF lower(command) = <<110>>
       THEN next_card(displayed_words, current_kanji, anki)
              @@ [pending_words |-> pending_words, calls |-> <<>>]
       ELSE [outcome |-> "continue", calls |-> <<>>,
             pending_words |-> process_word_selection(displayed_words,
                                                      pending_words, command)] @@ same

\* --------------------------------------------------- sort_and_limit_words
\* Faulty variant: every word containing the kanji is dropped.
filter_original_contained(words, kanji) ==
    SelectSeq(words, LAMBDA word :
        \A i \in 1..Len(word["word"]) : <<word["word"][i]>> # kanji)

\* line 28: the words other than the original kanji
filter_original(words, kanji) ==
    SelectSeq(words, LAMBDA word : word["word"] # kanji)

\* Faulty variant: any() in place of all().
priority_of_any(word, reviewed_kanji) ==
    LET others == Get(word, "other_kanji", <<>>)
    IN IF \E i \in 1..Len(others) : <<others[i]>> \in reviewed_kanji THEN 1 ELSE 0

\* Faulty variant: the membership test negated.
priority_of_unreviewed(word, reviewed_kanji) ==
    LET others == Get(word, "other_kanji", <<>>)
    IN IF \A i \in 1..Len(others) : <<others[i]>> \notin reviewed_kanji THEN 1 ELSE 0

\* lines 32-37: 1 when all other kanji of the word are reviewed, else 0
priority_of(word, reviewed_kanji) ==
    LET others == Get(word, "other_kanji", <<>>)
        all_reviewed == \A i \in 1..Len(others) : <<others[i]>> \in reviewed_kanji
    IN IF all_reviewed THEN 1 ELSE 0

\* Faulty variant: a word without level ranks above N5.
jlpt_rank_none_first(word) ==
    LET level == Get(word, "jlpt", None)
    IN IF level # None THEN level[1] ELSE 6

\* lines 41-42: N5=5 ... N1=1, none=0
jlpt_rank(word) ==
    LET level == Get(word, "jlpt", None)
    IN IF level # None THEN level[1] ELSE 0

\* Faulty variant: word["priority"] = priority, which writes into the
\* caller's dictionary.
store_priority(word, priority) ==
    LET stored == ("priority" :> priority) @@ word
    IN [merged |-> stored, word |-> stored]

\* line 44: word | {"priority": priority} builds a new dictionary; merged
\* is that dictionary, word is the caller's dictionary afterwards
merge_priority(word, priority) ==
    [merged |-> ("priority" :> priority) @@ word, word |-> word]

\* line 44: the tuple appended to word_rankings
ranking(word, reviewed_kanji) ==
    LET priority == priority_of(word, reviewed_kanji)
    IN << merge_priority(word, priority).merged, priority, jlpt_rank(word), priority >>

\* The caller's dictionary after the loop of lines 31-44 has handled it.
word_after(word, reviewed_kanji) ==
    merge_priority(word, priority_of(word, reviewed_kanji)).word

\* Faulty variant: words[:] = ..., which empties the caller's list of the
\* original kanji.
assign_slice(words, kept) == kept

\* line 28: words = [...] binds the local name to a new list; the caller's
\* list object still holds every element it held
rebind(words, kept) == words

\* Faulty variant: the level before the priority.
sort_key_level_first(x) == << x[3], x[2] >>

\* line 49: key=lambda x: (x[1], x[2])
sort_key(x) == << x[2], x[3] >>

\* list.sort's stable ascending merge, as an insertion after the equal keys
RECURSIVE InsertSorted(_, _)
InsertSorted(sorted, x) ==
    IF sorted = <<>> THEN <<x>>
    ELSE IF TupleLess(sort_key(x), sort_key(Head(sorted)))
         THEN <<x>> \o sorted
         ELSE <<Head(sorted)>> \o InsertSorted(Tail(sorted), x)

RECURSIVE StableSort(_)
StableSort(items) ==
    IF items = <<>> THEN <<>>
    ELSE InsertSorted(StableSort(SubSeq(items, 1, Len(items) - 1)),
                      items[Len(items)])

\* Faulty variant: an ascending sort reversed afterwards.
sorted_then_reversed(items) == Reverse(StableSort(items))

\* lines 48-50: sorted(word_rankings, key=..., reverse=True). CPython
\* reverses the list, sorts it stably in ascending order and reverses it
\* again, which keeps equal keys in their original order.
sorted_reverse(items) == Reverse(StableSort(Reverse(items)))

\* The reviewed-kanji record of a call that never asked Anki.
NotFetched == [raised |-> FALSE, value |-> {}, failed |-> "notcalled", partial |-> {}]

\* Faulty variant: no guard for an empty list, the body fails on it.
EmptyWordsRaises == [raised |-> TRUE, value |-> <<>>, reviewed |-> NotFetched,
                     words_after |-> <<>>, new_list |-> FALSE]

\* lines 18-19: the result for an empty candidate list, before any request
\* (return [], a new list; the caller's list is not touched)
EmptyWordsResult == [raised |-> FALSE, value |-> <<>>, reviewed |-> NotFetched,
                     words_after |-> <<>>, new_list |-> TRUE]

\* sort_and_limit_words(words, original_kanji, limit), lines 18-53, with
\* the state of AnkiConnect it reads through connect.get_reviewed_kanji.
\* raised stands for an exception leaving get_reviewed_kanji or for the
\* KeyError of line 28 on a word without "word". words_after is the
\* caller's list as the call leaves it; new_list says that the returned
\* list is an object made by the call (the slice of line 53).
sort_and_limit_words(words, kanji, limit, net, cards) ==
    IF words = <<>>
    THEN EmptyWordsResult
    ELSE LET reviewed == get_reviewed_kanji(net, cards)
         IN IF reviewed.raised \/ \E i \in 1..Len(words) : "word" \notin DOMAIN words[i]
            THEN [raised |-> TRUE, value |-> <<>>, reviewed |-> reviewed,
                  words_after |-> words, new_list |-> FALSE]
            ELSE LET kept == filter_original(words, kanji)
                     seen == rebind(words, kept)
                     word_rankings == [i \in 1..Len(kept) |->
                                          ranking(kept[i], reviewed.value)]
                     by_rank == sorted_reverse(word_rankings)
                     sorted_words == [i \in 1..Len(by_rank) |-> by_rank[i][1]]
                 IN [raised |-> FALSE,
                     value |-> SliceTo(sorted_words, limit),
                     reviewed |-> reviewed,
                     words_after |-> [i \in 1..Len(seen) |->
                         IF seen[i]["word"] # kanji
                         THEN word_after(seen[i], reviewed.value)
                         ELSE seen[i]],
                     new_list |-> TRUE]

\* ------------------------------------------------------------------ state
VARIABLES
    deck,            \* Anki: the reviewed cards of the kanji deck, as cardsInfo lists them
    words,           \* the candidate list handed to sort_and_limit_words
    original_kanji,  \* the kanji of the card under review (the anchor)
    call,            \* the latest call of sort_and_limit_words and its result
    prev,            \* limit and result of the call before the latest
    query,           \* the kanji handed to search_words_containing_kanji
    response,        \* the JSON the Jisho API answers that query with
    found,           \* the latest search call and its result
    vocab_deck,      \* Anki: the cards of the deck VocabularyNew
    vocab,           \* the latest call of get_reviewed_vocab and its result
    selected_words,  \* the words handed to add_vocab_note_to_deck
    deckname,        \* its deckname argument
    can_add,         \* Anki: what canAddNotes answers for the notes of those words
    added,           \* the latest call of add_vocab_note_to_deck and its outcome
    argument,        \* the argument of a function called on its own
    returned,        \* that call and what it returned or raised
    pending_words,   \* add_during: the words selected so far
    displayed_words, \* add_during: the words of the table shown last
    current_kanji,   \* add_during: the kanji of the card fetched last
    command,         \* add_during: the command read last
    current_card,    \* add_during: what get_current_card gave last (card)
    pc,              \* add_during: at the prompt, or how the loop ended
    asked,           \* add_during: the number of commands read
    submitted,       \* the calls of anki_connect.add_words_to_deck of the run
    reviewing        \* Anki: the card under review

rank_vars == << deck, words, original_kanji, call, prev >>
search_vars == << query, response, found >>
vocab_vars == << vocab_deck, vocab >>
note_vars == << selected_words, deckname, can_add, added >>
fn_vars == << argument, returned >>
loop_vars == << pending_words, displayed_words, current_kanji, command,
               current_card, pc, asked, submitted, reviewing >>
vars == << rank_vars, search_vars, vocab_vars, note_vars, fn_vars, loop_vars >>

NoCall == [called |-> FALSE, limit |-> 0,
           net |-> [findCards |-> TRUE, cardsInfo |-> TRUE],
           input |-> <<>>, deck |-> <<>>,
           raised |-> FALSE, value |-> <<>>, reviewed |-> NotFetched,
           words_after |-> <<>>, new_list |-> FALSE]

NoPrev == [called |-> FALSE, limit |-> 0, value |-> <<>>]

NoSearch == [called |-> FALSE, module |-> "none", raised |-> FALSE,
             requested |-> FALSE, value |-> <<>>]

\* The search side at rest: nothing asked, nothing found.
SearchIdle == query = <<>> /\ response = [data |-> <<>>] /\ found = NoSearch

NoVocab == [called |-> FALSE, net |-> [findCards |-> TRUE, cardsInfo |-> TRUE],
            raised |-> FALSE, value |-> <<>>, failed |-> "notcalled", partial |-> <<>>]

\* The vocabulary side at rest.
VocabIdle == vocab_deck = <<>> /\ vocab = NoVocab

DefaultDeck == "VocabularyNew"

NoAdd == [called |-> FALSE,
          net |-> [furigana |-> TRUE, canAddNotes |-> TRUE, addNotes |-> TRUE],
          raised |-> FALSE, error |-> "none", message |-> <<>>,
          sent |-> <<>>, prepared |-> <<>>, events |-> <<>>,
          added_count |-> 0, duplicates_count |-> 0, printed |-> "nothing"]

\* The note side at rest.
NoteIdle ==
    /\ selected_words = <<>>
    /\ deckname = DefaultDeck
    /\ can_add = <<>>
    /\ added = NoAdd

NoReturn == [called |-> FALSE, raised |-> FALSE, value |-> <<>>]

\* No function called on its own.
FnIdle == argument = <<>> /\ returned = NoReturn

\* add_during not running.
LoopIdle ==
    /\ pending_words = <<>>
    /\ displayed_words = <<>>
    /\ current_kanji = None
    /\ command = <<>>
    /\ current_card = None
    /\ pc = "off"
    /\ asked = 0
    /\ submitted = <<>>
    /\ reviewing = None

\* ----------------------------------------------------------------- inputs
Anchors == { <<Ch.gaku>>, <<Ch.kou>> }

Limits == {-1} \cup (0..MaxLimit) \cup {DefaultLimit}

\* Which of the two AnkiConnect requests of a call succeed.
Nets == { [findCards |-> TRUE, cardsInfo |-> TRUE],
          [findCards |-> FALSE, cardsInfo |-> TRUE],
          [findCards |-> TRUE, cardsInfo |-> FALSE] }

\* The dictionaries search_words_containing_kanji builds for a kanji.
Candidates(kanji) == { BuildResult(JishoData[i], kanji) : i \in 1..Len(JishoData) }

\* The four words of tests/test_card_processor.py, in the fixture's order,
\* the first with the level 0 the fixture gives it.
FixtureWords(kanji) ==
    [i \in 1..4 |-> IF i = 1
                    THEN [BuildResult(JishoData[i], kanji) EXCEPT !.jlpt = Some(0)]
                    ELSE BuildResult(JishoData[i], kanji)]

InputLists(kanji) == SeqUpTo(Candidates(kanji), MaxWords) \cup {FixtureWords(kanji)}

\* A sense of an API item with its parts of speech.
Sense(english_definitions, parts_of_speech) ==
    [english_definitions |-> english_definitions, parts_of_speech |-> parts_of_speech]

Noun == <<78, 111, 117, 110>>                 \* "Noun"
Suffix == <<83, 117, 102, 102, 105, 120>>     \* "Suffix"
Verb == <<86, 101, 114, 98>>                  \* "Verb"

\* API items off the common shape: no Japanese data; an empty list of
\* forms; a form with a reading only; no senses; an empty list of senses;
\* four senses, one without English definition and one without part of
\* speech.
OddItems ==
    << [jlpt |-> <<>>, senses |-> <<Sense(<<<<115>>>>, <<Noun>>)>>],
       [japanese |-> <<>>, jlpt |-> <<>>, senses |-> <<Sense(<<<<115>>>>, <<Noun>>)>>],
       [japanese |-> <<[reading |-> <<12414, 12394, 12406>>]>>, jlpt |-> <<>>,
        senses |-> <<Sense(<<<<108>>>>, <<Verb>>)>>],
       [japanese |-> <<[word |-> <<23398, 26657>>, reading |-> <<12364, 12387, 12371, 12358>>]>>,
        jlpt |-> <<JlptTag(5)>>],
       [japanese |-> <<[word |-> <<26657>>, reading |-> <<12371, 12358>>]>>,
        jlpt |-> <<>>, senses |-> <<>>],
       [japanese |-> <<[word |-> <<23398>>, reading |-> <<12364, 12367>>]>>,
        jlpt |-> <<JlptTag(3)>>,
        senses |-> << Sense(<<<<108>>, <<115>>>>, <<Noun, Suffix>>),
                      Sense(<<>>, <<Noun>>),
                      [english_definitions |-> <<<<107>>>>],
                      Sense(<<<<101>>>>, <<Verb>>) >>] >>

\* The items a response is made of.
SearchItems == { JishoData[i] : i \in {2, 3} } \cup { OddItems[i] : i \in 1..Len(OddItems) }

\* Responses: a data list of up to MaxItems items, or JSON without "data".
Responses == { [data |-> items] : items \in SeqUpTo(SearchItems, MaxItems) }
                 \cup { [meta |-> <<>>] }

\* The queries: none, gaku, kou.
Queries == { <<>>, <<Ch.gaku>>, <<Ch.kou>> }

Kana == [ga |-> 12364, tsu |-> 12387, ko |-> 12371, u |-> 12358, ku |-> 12367]

\* A card as cardsInfo returns it, reduced to its Front field.
VocabCard(value) == [fields |-> [Front |-> [value |-> value, order |-> 0]]]

\* "<ruby>base<rt>reading</rt></ruby>"
RubyText(base, reading) == RubyTag \o base \o RtTag \o reading \o RtRubyEnd

\* The cards of VocabularyNew: gakkou as one ruby tag inside a div; gaku
\* and kou as two ruby tags; gakkou in the bracket notation prepare_note
\* writes; gaku in bold; a ruby tag without base text; an empty field;
\* daigaku as plain text between blanks; a card without Front field; a
\* Front field without value.
VocabCards ==
    { VocabCard(TagDiv \o RubyText(<<32, Ch.gaku, Ch.kou>>,
                                   <<Kana.ga, Kana.tsu, Kana.ko, Kana.u>>) \o TagDivEnd),
      VocabCard(RubyText(<<Ch.gaku>>, <<Kana.ga, Kana.ku>>)
                    \o RubyText(<<Ch.kou>>, <<Kana.ko, Kana.u>>)),
      VocabCard(<<Ch.gaku, 91, Kana.ga, Kana.tsu, 93, Ch.kou, 91, Kana.ko, Kana.u, 93>>
                    \o TagBr),
      VocabCard(<<60, 98, 62, Ch.gaku, 60, 47, 98, 62>>),
      VocabCard(RubyText(<<32>>, <<Kana.ga, Kana.ku>>)),
      VocabCard(TagDiv \o TagBr \o TagDivEnd),
      VocabCard(<<32, Ch.dai, Ch.gaku, 32>>),
      KanjiCard(<<Ch.kou>>),
      [fields |-> [Front |-> [order |-> 0]]] }

VocabDecks == SeqUpTo(VocabCards, MaxVocab)

\* The words a user can select: gakkou, gaku and manabu as the search
\* builds them, and gakkou as it builds it from an item without senses.
SelectableWords ==
    { JishoWord(JishoData[2]), JishoWord(OddItems[6]), JishoWord(JishoData[6]),
      JishoWord(OddItems[4]) }

\* What jisho.org/word/<expression> holds: the text of span.text, with the
\* blanks and line feeds around it, and the furigana of the span.kanji
\* elements; None for a word without page.
WordPage(expression) ==
    IF expression = <<Ch.gaku, Ch.kou>>
    THEN Some([text |-> <<10, 32, Ch.gaku, Ch.kou, 10, 32>>,
               kanji |-> << <<Kana.ga, Kana.tsu>>, <<Kana.ko, Kana.u>> >>])
    ELSE IF expression = <<Ch.gaku>>
    THEN Some([text |-> <<32, Ch.gaku>>, kanji |-> << <<Kana.ga, Kana.ku>> >>])
    ELSE IF expression = <<Ch.gaku, Ch.bu>>
    THEN Some([text |-> <<Ch.gaku, Ch.bu>>, kanji |-> << <<12414, 12394>> >>])
    ELSE None

\* The deck names a caller passes: the default and another deck.
DeckNames == { DefaultDeck, "Mining" }

\* Which requests of a call succeed.
NoteNets == [furigana : BOOLEAN, canAddNotes : BOOLEAN, addNotes : BOOLEAN]

\* Reviewed decks: empty; one plain card; HTML-wrapped values next to a
\* card of another note type; a card without a value after a good one; a
\* card for the iteration mark (U+3005) before a kanji card.
Decks ==
    { <<>>,
      <<KanjiCard(<<12293>>), KanjiCard(<<Ch.kou>>)>>,
      <<KanjiCard(<<Ch.kou>>)>>,
      <<KanjiCard(TagDiv \o <<Ch.dai>> \o TagDivEnd), OtherCard,
        KanjiCard(<<32, Ch.gaku>> \o TagBr)>>,
      <<KanjiCard(<<Ch.kou>>), BrokenCard, KanjiCard(<<Ch.dai>>)>> }

\* The cards a review session can add to the reviewed deck.
SessionCards == { KanjiCard(<<Ch.kou>>),
                  KanjiCard(TagDiv \o <<Ch.dai>> \o TagDivEnd),
                  BrokenCard }

\* strings handed to is_kanji: kanji, kana, Latin letters, a digit and the
\* code points at both ends of the kanji block
TestChars == { 23665, 26408, 12354, 12450, 97, 65, 49,
               KanjiFirst - 1, KanjiFirst, KanjiLast, KanjiLast + 1 }
IsKanjiArguments == SeqUpTo(TestChars, MaxChars)

\* words on jisho.org pages: kanji, hiragana and a katakana
FuriganaChars == { Ch.gaku, Ch.kou, 12362, 12427, 12450 }
Readings == { <<Kana.ga, Kana.tsu>>, <<Kana.ko, Kana.u>> }
FuriganaArguments ==
    { a \in [ok : BOOLEAN, found : BOOLEAN, padded : BOOLEAN,
             word : SeqUpTo(FuriganaChars, MaxWordLen),
             kanji : SeqUpTo(Readings, MaxWordLen)] :
        a.found \/ (a.word = <<>> /\ a.kanji = <<>> /\ ~a.padded) }

\* the page jisho.org holds for the word of a: span.text is indented
FuriganaPage(a) ==
    IF ~a.found THEN None
    ELSE <<[text |-> IF a.padded THEN <<10, 32, 32>> \o a.word \o <<10, 32>>
                     ELSE a.word,
            kanji |-> a.kanji]>>

\* what the user types at the prompt, and arguments that are no strings
ParseChars == { 49, 50, 45, 32, 9, 97, 95 }
ParseArguments ==
    { [type |-> "str", text |-> t, n |-> 0] : t \in SeqUpTo(ParseChars, MaxInput) }
        \cup { [type |-> "None", text |-> <<>>, n |-> 0] }
        \cup { [type |-> "int", text |-> <<>>, n |-> n] : n \in {0, 5} }

\* HTTP exchanges with AnkiConnect
JsonResults == { JsonNull, [type |-> "list", items |-> <<>>],
                 [type |-> "list", items |-> <<1, 2>>],
                 JsonString(<<79, 75>>) }
JsonErrors == { JsonNull, JsonString(<<>>), JsonString(<<100, 101, 99, 107>>),
                [type |-> "list", items |-> <<>>] }
JsonBodies ==
    { [result |-> r, error |-> e] : r \in JsonResults, e \in JsonErrors }
        \cup { [result |-> r] : r \in JsonResults }
        \cup { [error |-> e] : e \in JsonErrors }
Exchanges ==
    [failure : {"none", "ConnectionError", "HTTPError", "JSONDecodeError"},
     data : JsonBodies]

\* what the user types at the prompt of add_during
Commands == { <<113>>, <<81>>, <<110>>, <<78>>, <<49>>, <<50, 32, 49>>, <<120>> }

\* cards under review: none, a kanji card, cards with a front field
\* (empty, and holding a word), and a card without fields
ReviewCards == { None, Some(KanjiCard(<<Ch.gaku>>)), Some(VocabCard(<<>>)),
                 Some(VocabCard(<<Ch.gaku, Ch.kou>>)), Some([cardId |-> 1]) }

\* Anki and the user during one pass of the loop
Passes(now) == [up : BOOLEAN, info : BOOLEAN, reviewing : {now},
                confirm : BOOLEAN, interrupt : BOOLEAN]

\* selections handed to process_word_selection, with the table shown and
\* the words pending before
ShownWord(expression, kana) == [word |-> expression, reading |-> kana]
ShownWords ==
    << ShownWord(<<Ch.gaku, Ch.kou>>, <<Kana.ga, Kana.tsu, Kana.ko, Kana.u>>),
       ShownWord(<<Ch.dai, Ch.gaku>>, <<Kana.ga, Kana.ku>>),
       ShownWord(<<Ch.gaku>>, <<Kana.ga, Kana.ku>>) >>
SelectChars == { 49, 50, 51, 32, 45 }
SelectArguments ==
    [type : {"str"}, n : {0},
     text : SeqUpTo(SelectChars, MaxInput),
     displayed : { <<>>, <<ShownWords[1]>>, <<ShownWords[1], ShownWords[2]>>,
                   <<ShownWords[2], ShownWords[1], ShownWords[2]>> },
     pending : { <<>>, <<ShownWords[3]>>, <<ShownWords[1], ShownWords[3]>> }]

\* ---------------------------------------------------------------- actions
\* Faulty variant: the cards read by an earlier call are kept for the
\* later ones.
cards_of_earlier_call(now, last) ==
    IF last.called /\ last.reviewed.failed # "notcalled" THEN last.deck ELSE now

\* card_processor.py line 22: connect.get_reviewed_kanji() runs inside
\* every call, so its requests read the deck as Anki holds it then; last,
\* the call before, leaves nothing behind for it
cards_at_call(now, last) == now

\* A call sort_and_limit_words(words, original_kanji, limit). input and
\* deck record the list passed and the deck Anki held during the call.
Rank(limit, net) ==
    /\ call' = [called |-> TRUE, limit |-> limit, net |-> net,
                input |-> words, deck |-> deck]
                 @@ sort_and_limit_words(words, original_kanji, limit, net,
                                         cards_at_call(deck, call))
    /\ prev' = [called |-> call.called, limit |-> call.limit, value |-> call.value]
    /\ words' = call'.words_after
    /\ UNCHANGED << deck, original_kanji, search_vars, vocab_vars, note_vars, fn_vars, loop_vars >>

\* A call jisho.search_words_containing_kanji(query).
Search(ok) ==
    /\ found' = [called |-> TRUE, module |-> "jisho"]
                  @@ search_words_containing_kanji(query, ok, response)
    /\ UNCHANGED << rank_vars, query, response, vocab_vars, note_vars, fn_vars, loop_vars >>

\* A call jisho_api.search_words_containing_kanji(query).
ApiSearch(ok) ==
    /\ found' = [called |-> TRUE, module |-> "jisho_api"]
                  @@ api_search_words_containing_kanji(query, ok, response)
    /\ UNCHANGED << rank_vars, query, response, vocab_vars, note_vars, fn_vars, loop_vars >>

\* A call connect.get_reviewed_vocab().
ReviewedVocab(net) ==
    /\ vocab' = [called |-> TRUE, net |-> net] @@ get_reviewed_vocab(net, vocab_deck)
    /\ UNCHANGED << rank_vars, search_vars, vocab_deck, note_vars, fn_vars, loop_vars >>

\* A call connect.add_vocab_note_to_deck(selected_words, deckname).
AddVocab(net) ==
    /\ added' = [called |-> TRUE, net |-> net]
                  @@ add_vocab_note_to_deck(selected_words, deckname, net,
                         [i \in 1..Len(selected_words) |->
                             WordPage(selected_words[i].expression)],
                         can_add)
    /\ UNCHANGED << rank_vars, search_vars, vocab_vars,
                    selected_words, deckname, can_add, fn_vars, loop_vars >>

\* The user reviews one more kanji card in Anki.
AnkiReview(card) ==
    /\ Len(deck) < MaxCards
    /\ deck' = Append(deck, card)
    /\ UNCHANGED << words, original_kanji, call, prev, search_vars, vocab_vars, note_vars, fn_vars, loop_vars >>

\* A call jisho.is_kanji(argument).
IsKanji ==
    /\ returned' = [called |-> TRUE, raised |-> FALSE, value |-> is_kanji(argument)]
    /\ UNCHANGED << rank_vars, search_vars, vocab_vars, note_vars, argument, loop_vars >>

\* A call jisho.fetch_jisho_word_furigana(argument.word).
FetchFurigana ==
    /\ returned' = [called |-> TRUE]
                     @@ fetch_jisho_word_furigana(argument.ok, FuriganaPage(argument))
    /\ UNCHANGED << rank_vars, search_vars, vocab_vars, note_vars, argument, loop_vars >>

\* A call utils.parse_selection(argument).
ParseSelection ==
    /\ returned' = [called |-> TRUE] @@ parse_selection(argument)
    /\ UNCHANGED << rank_vars, search_vars, vocab_vars, note_vars, argument, loop_vars >>

\* A call connect.send_request(action, **params) answered by argument.
SendRequest ==
    /\ returned' = [called |-> TRUE] @@ send_request_exchange(argument)
    /\ UNCHANGED << rank_vars, search_vars, vocab_vars, note_vars, argument, loop_vars >>

\* A call cli.process_word_selection(displayed, pending, text).
ProcessSelection ==
    /\ returned' = [called |-> TRUE, raised |-> FALSE,
                    value |-> process_word_selection(argument.displayed,
                                  argument.pending, argument.text)]
    /\ UNCHANGED << rank_vars, search_vars, vocab_vars, note_vars, argument, loop_vars >>

\* add_during: a command is read and handled (lines 272-307), and the
\* except clauses of lines 309-313 when the handling raises.
Command(typed, anki) ==
    /\ pc = "prompt"
    /\ asked < MaxCommands
    /\ LET handled == handle_command(typed, pending_words, displayed_words,
                                     current_kanji, current_card, anki)
           at_exit == IF handled.outcome = "KeyboardInterrupt"
                      THEN add_pending_words_to_anki(handled.pending_words,
                                                     anki.confirm, anki.up).calls
                      ELSE <<>>
       IN /\ pending_words' = handled.pending_words
          /\ displayed_words' = handled.displayed_words
          /\ current_kanji' = handled.current_kanji
          /\ current_card' = handled.card
          /\ submitted' = submitted \o handled.calls \o at_exit
          /\ pc' = CASE handled.outcome = "continue" -> "prompt"
                     [] handled.outcome = "break" -> "quit"
                     [] handled.outcome = "Exception" -> "error"
                     [] handled.outcome = "KeyboardInterrupt" -> "interrupted"
    /\ command' = typed
    /\ asked' = asked + 1
    /\ UNCHANGED << rank_vars, search_vars, vocab_vars, note_vars, fn_vars, reviewing >>

\* add_during: Ctrl-C at the prompt. click.prompt turns it into
\* click.Abort, a RuntimeError, which the clause of line 309 catches.
PromptAborted ==
    /\ pc = "prompt"
    /\ pc' = "error"
    /\ UNCHANGED << rank_vars, search_vars, vocab_vars, note_vars, fn_vars,
                    pending_words, displayed_words, current_kanji, command,
                    current_card,                     asked, submitted, reviewing >>

\* The user moves to another card in Anki, or leaves the review.
AnkiShows(shown) ==
    /\ pc = "prompt"
    /\ shown # reviewing
    /\ reviewing' = shown
    /\ UNCHANGED << rank_vars, search_vars, vocab_vars, note_vars, fn_vars,
                    pending_words, displayed_words, current_kanji, command,
                    current_card,                     pc, asked, submitted >>

\* ---------------------------------------------------------- specifications
\* One ranking call per drawn input, against a fixed Anki deck.
InitRank ==
    /\ deck \in Decks
    /\ original_kanji \in Anchors
    /\ words \in InputLists(original_kanji)
    /\ call = NoCall
    /\ prev = NoPrev
    /\ SearchIdle
    /\ VocabIdle
    /\ NoteIdle
    /\ FnIdle
    /\ LoopIdle

NextRank == ~call.called /\ \E limit \in Limits, net \in Nets : Rank(limit, net)

SpecRank == InitRank /\ [][NextRank]_vars

\* One search per drawn query and response, by either module.
RankIdle ==
    /\ deck = <<>>
    /\ original_kanji = <<Ch.gaku>>
    /\ words = <<>>
    /\ call = NoCall
    /\ prev = NoPrev

InitSearch ==
    /\ RankIdle
    /\ query \in Queries
    /\ response \in Responses
    /\ found = NoSearch
    /\ VocabIdle
    /\ NoteIdle
    /\ FnIdle
    /\ LoopIdle

NextSearch ==
    /\ ~found.called
    /\ \/ \E ok \in BOOLEAN : Search(ok)
       \/ \E ok \in BOOLEAN : ApiSearch(ok)

SpecSearch == InitSearch /\ [][NextSearch]_vars

\* One call of get_reviewed_vocab per drawn deck.
InitVocab ==
    /\ RankIdle
    /\ SearchIdle
    /\ vocab_deck \in VocabDecks
    /\ vocab = NoVocab
    /\ NoteIdle
    /\ FnIdle
    /\ LoopIdle

NextVocab == ~vocab.called /\ \E net \in Nets : ReviewedVocab(net)

SpecVocab == InitVocab /\ [][NextVocab]_vars

\* One call of add_vocab_note_to_deck per drawn selection.
InitAdd ==
    /\ RankIdle
    /\ SearchIdle
    /\ VocabIdle
    /\ selected_words \in SeqUpTo(SelectableWords, MaxSelected)
    /\ deckname \in DeckNames
    /\ can_add \in [1..Len(selected_words) -> BOOLEAN]
    /\ added = NoAdd
    /\ FnIdle
    /\ LoopIdle

NextAdd == ~added.called /\ \E net \in NoteNets : AddVocab(net)

SpecAdd == InitAdd /\ [][NextAdd]_vars

\* A review session: ranking calls on one candidate list while the
\* reviewed deck grows.
InitSession ==
    /\ deck = <<>>
    /\ original_kanji = <<Ch.gaku>>
    /\ words = FixtureWords(original_kanji)
    /\ call = NoCall
    /\ prev = NoPrev
    /\ SearchIdle
    /\ VocabIdle
    /\ NoteIdle
    /\ FnIdle
    /\ LoopIdle

NextSession ==
    \/ \E limit \in Limits, net \in Nets : Rank(limit, net)
    \/ \E card \in SessionCards : AnkiReview(card)

SpecSession == InitSession /\ [][NextSession]_vars

\* The other sides at rest.
AllIdle == RankIdle /\ SearchIdle /\ VocabIdle /\ NoteIdle

\* One call of is_kanji per drawn string.
InitIsKanji ==
    /\ AllIdle
    /\ LoopIdle
    /\ argument \in IsKanjiArguments
    /\ returned = NoReturn
NextIsKanji == ~returned.called /\ IsKanji
SpecIsKanji == InitIsKanji /\ [][NextIsKanji]_vars

\* One call of fetch_jisho_word_furigana per drawn page.
InitFurigana ==
    /\ AllIdle
    /\ LoopIdle
    /\ argument \in FuriganaArguments
    /\ returned = NoReturn
NextFurigana == ~returned.called /\ FetchFurigana
SpecFurigana == InitFurigana /\ [][NextFurigana]_vars

\* One call of parse_selection per drawn argument.
InitParse ==
    /\ AllIdle
    /\ LoopIdle
    /\ argument \in ParseArguments
    /\ returned = NoReturn
NextParse == ~returned.called /\ ParseSelection
SpecParse == InitParse /\ [][NextParse]_vars

\* One call of send_request per drawn exchange.
InitSend ==
    /\ AllIdle
    /\ LoopIdle
    /\ argument \in Exchanges
    /\ returned = NoReturn
NextSend == ~returned.called /\ SendRequest
SpecSend == InitSend /\ [][NextSend]_vars

\* One call of process_word_selection per drawn table, list and selection.
InitSelect ==
    /\ AllIdle
    /\ LoopIdle
    /\ argument \in SelectArguments
    /\ returned = NoReturn
NextSelect == ~returned.called /\ ProcessSelection
SpecSelect == InitSelect /\ [][NextSelect]_vars

\* One run of add_during, from the first prompt on (lines 267-269 done).
InitLoop ==
    /\ AllIdle
    /\ FnIdle
    /\ pending_words = <<>>
    /\ displayed_words = <<>>
    /\ current_kanji = None
    /\ command = <<>>
    /\ current_card = None
    /\ pc = "prompt"
    /\ asked = 0
    /\ submitted = <<>>
    /\ reviewing \in ReviewCards

NextLoop ==
    \/ \E typed \in Commands : \E anki \in Passes(reviewing) : Command(typed, anki)
    \/ PromptAborted
    \/ \E shown \in ReviewCards : AnkiShows(shown)

SpecLoop == InitLoop /\ [][NextLoop]_vars

\* ================================================================ claims
\* Vocabulary of the properties, read off the recorded call.
Output == call.value
ReviewedSet == call.reviewed.value
Returned == call.called /\ ~call.raised

\* the kanji of an expression other than the anchor
OtherKanjiOf(expression) ==
    { expression[i] : i \in { j \in 1..Len(expression) :
          is_kanji(<<expression[j]>>) /\ <<expression[j]>> # original_kanji } }

AllOthersReviewed(expression) ==
    \A c \in OtherKanjiOf(expression) : <<c>> \in ReviewedSet

Unranked(entry) == entry.jlpt = None \/ entry.jlpt = Some(0)
LevelOf(entry) == IF Unranked(entry) THEN 0 ELSE entry.jlpt[1]

Expressions(entries) == [i \in 1..Len(entries) |-> entries[i].word]

IsPrefix(s, t) == Len(s) <= Len(t) /\ SubSeq(t, 1, Len(s)) = s

Gakkou == <<23398, 26657>>
Daigaku == <<22823, 23398>>
Gengo == <<35328, 35486>>
Gakumon == <<23398, 21839>>
Manabu == <<23398, 12406>>

\* the call of the test: the four fixture words, anchor gaku, kou reviewed
FixtureCall ==
    /\ Returned
    /\ original_kanji = <<Ch.gaku>>
    /\ words = FixtureWords(original_kanji)
    /\ ReviewedSet = { <<Ch.kou>> }

\* C1: every output candidate has priority 1 exactly when every kanji of
\* its expression other than the anchor is in the reviewed set (so also
\* when it has no other kanji), and priority 0 otherwise.
C1_PriorityIffOthersReviewed ==
    Returned =>
        \A i \in 1..Len(Output) :
            /\ Output[i].priority \in {0, 1}
            /\ (Output[i].priority = 1) <=> AllOthersReviewed(Output[i].word)

\* a call whose output holds a priority-1 word with a reviewed other kanji,
\* a priority-1 word without other kanji and a priority-0 word
C1_Witness ==
    /\ Returned
    /\ \E i, j, k \in 1..Len(Output) :
        /\ Output[i].priority = 1 /\ OtherKanjiOf(Output[i].word) # {}
        /\ Output[j].priority = 1 /\ OtherKanjiOf(Output[j].word) = {}
        /\ Output[k].priority = 0

C3_PriorityMajor ==
    Returned =>
        \A i, j \in 1..Len(Output) :
            i < j => ~(Output[i].priority = 0 /\ Output[j].priority = 1)

\* a call whose input starts with a word that comes out last with
\* priority 0, behind a priority-1 word of a lower level
C3_Witness ==
    /\ Returned
    /\ Len(Output) >= 2
    /\ Output[1].priority = 1
    /\ Output[Len(Output)].priority = 0
    /\ Output[Len(Output)].word = words[1].word
    /\ LevelOf(Output[1]) < LevelOf(Output[Len(Output)])

\* the input after anchor filtering, each word with the priority C1 states
AnnotatedInput ==
    LET kept == SelectSeq(words, LAMBDA w : w.word # original_kanji)
    IN [i \in 1..Len(kept) |->
          ("priority" :> (IF AllOthersReviewed(kept[i].word) THEN 1 ELSE 0)) @@ kept[i]]

SameKeys(entry, p, l) == entry.priority = p /\ LevelOf(entry) = l

\* C4: the candidates of one priority and one level appear in the output in
\* the order they have in the anchor-filtered input.
C4_StableOrder ==
    Returned =>
        \A p \in {0, 1}, l \in 0..5 :
            IsPrefix(SelectSeq(Output, LAMBDA e : SameKeys(e, p, l)),
                     SelectSeq(AnnotatedInput, LAMBDA e : SameKeys(e, p, l)))

\* a call that moved a word forward and returned two different words of
\* equal priority and level
C4_Witness ==
    /\ Returned
    /\ Len(Output) = 3
    /\ Output[1].word # words[1].word
    /\ \E i, j \in 1..Len(Output) :
        /\ i < j
        /\ Output[i].word # Output[j].word
        /\ Output[i].priority = Output[j].priority
        /\ LevelOf(Output[i]) = LevelOf(Output[j])

\* C5: no output candidate's expression equals the anchor, and a call whose
\* limit does not truncate returns every input word other than the anchor,
\* the compounds containing the anchor included.
C5_AnchorExcluded ==
    Returned =>
        /\ \A i \in 1..Len(Output) : Output[i].word # original_kanji
        /\ call.limit >= Len(words) =>
              \A k \in 1..Len(words) :
                  words[k].word # original_kanji =>
                      \E i \in 1..Len(Output) : Output[i].word = words[k].word

\* a call on a list holding the anchor alone and a compound containing it
C5_Witness ==
    /\ Returned
    /\ \E k \in 1..Len(words) : words[k].word = original_kanji
    /\ \E i \in 1..Len(Output) : \E n \in 1..Len(Output[i].word) :
          <<Output[i].word[n]>> = original_kanji

\* the output of the same call without truncation
FullySorted ==
    sort_and_limit_words(words, original_kanji, Len(words), call.net, deck).value

\* C6: for every limit the output has at most limit entries (none for a
\* negative limit) and is a head of the fully sorted filtered sequence;
\* the fixture call with limit 2 yields gakkou, daigaku.
C6_AtMostLimit ==
    /\ Returned =>
        /\ Len(Output) <= Max(call.limit, 0)
        /\ IsPrefix(Output, FullySorted)
    /\ (FixtureCall /\ call.limit = 2) => Expressions(Output) = << Gakkou, Daigaku >>

\* C7: a call with an empty candidate list returns the empty list and does
\* not raise.
C7_EmptyInput ==
    (call.called /\ words = <<>>) => (~call.raised /\ Output = <<>>)

\* a call on the empty list has returned
C7_Witness == call.called /\ words = <<>> /\ call.limit = DefaultLimit

\* C8 as claimed: with an empty reviewed set the call does not raise and
\* every candidate of more than one character has priority 0.
C8_MultiCharacterIsLow ==
    (call.called /\ ReviewedSet = {}) =>
        /\ ~call.raised
        /\ \A i \in 1..Len(Output) :
              Len(Output[i].word) > 1 => Output[i].priority = 0

\* C8 as amended: with an empty reviewed set the call does not raise, every
\* candidate with a kanji other than the anchor has priority 0 and every
\* candidate without one (the anchor followed by kana) has priority 1.
C8_OtherKanjiIsLow ==
    (call.called /\ ReviewedSet = {}) =>
        /\ ~call.raised
        /\ \A i \in 1..Len(Output) :
              IF OtherKanjiOf(Output[i].word) # {}
              THEN Output[i].priority = 0
              ELSE Output[i].priority = 1

\* a call that found nothing reviewed and returned a word with another
\* kanji next to the anchor followed by kana
C8_Witness ==
    /\ Returned
    /\ call.reviewed.failed = "none"
    /\ ReviewedSet = {}
    /\ \E i, j \in 1..Len(Output) :
        /\ OtherKanjiOf(Output[i].word) # {} /\ Output[i].priority = 0
        /\ Output[j].word = Manabu /\ Output[j].priority = 1

C10_SameInputsSameOutput ==
    (call.called /\ prev.called /\ call.limit = prev.limit) =>
        Expressions(Output) = Expressions(prev.value)

\* C11: a call leaves its inputs as they were: the caller's list keeps its
\* length and order, the entry equal to the original kanji included, no
\* candidate of it gains a priority field or has a field changed, and the
\* list returned is a new one.
C11_InputsUnchanged ==
    call.called =>
        /\ words = call.input
        /\ \A i \in 1..Len(words) : "priority" \notin DOMAIN words[i]
        /\ ~call.raised => call.new_list

\* a call that dropped the original kanji and annotated another word
C11_Witness ==
    /\ Returned
    /\ \E i \in 1..Len(call.input) : call.input[i].word = original_kanji
    /\ Len(Output) >= 1
    /\ "priority" \in DOMAIN Output[1]
    /\ Len(Output) < Len(words)

\* the Kanji field of the card holds the character
CardShows(card, char) ==
    /\ "Kanji" \in DOMAIN card.fields
    /\ "value" \in DOMAIN card.fields.Kanji
    /\ \E n \in 1..Len(card.fields.Kanji.value) : card.fields.Kanji.value[n] = char

\* AnkiConnect answered both requests of the latest call with usable cards
AnkiAnswered ==
    /\ call.net.findCards
    /\ call.net.cardsInfo
    /\ \A k \in 1..Len(call.deck) : call.deck[k] # BrokenCard

\* the character was reviewed when the latest call ran
ReviewedAtCall(char) ==
    AnkiAnswered /\ \E k \in 1..Len(call.deck) : CardShows(call.deck[k], char)

\* C12: every call of a session ranks with the reviewed set as Anki holds
\* it during that call: the set is asked for again by every call on a
\* non-empty list, and a word has priority 1 exactly when all its other
\* kanji are reviewed at that time, whatever earlier calls saw.
C12_ReviewedSetOfTheCall ==
    (call.called /\ call.input # <<>>) =>
        /\ call.reviewed.failed # "notcalled"
        /\ ~call.raised
        /\ \A i \in 1..Len(Output) :
              (Output[i].priority = 1) <=>
                  \A c \in OtherKanjiOf(Output[i].word) : ReviewedAtCall(c)

\* two calls with a review in between: a word of priority 0 in the earlier
\* result has priority 1 in the later one
C12_Witness ==
    /\ call.called /\ prev.called
    /\ \E i \in 1..Len(prev.value), j \in 1..Len(Output) :
          /\ prev.value[i].word = Output[j].word
          /\ prev.value[i].priority = 0
          /\ Output[j].priority = 1

\* The candidates of the latest search.
Candidate(i) == found.value[i]
Searched == found.called /\ ~found.raised

\* C13: every candidate a search returns has at least one definition; an
\* API item without senses does not become a candidate.
C13_CandidatesHaveDefinitions ==
    Searched => \A i \in 1..Len(found.value) : Candidate(i).definitions # <<>>

\* the first Japanese form of an API item
FirstForm(item) ==
    IF "word" \in DOMAIN item.japanese[1] THEN item.japanese[1].word
    ELSE item.japanese[1].reading

HasForm(item) == "japanese" \in DOMAIN item /\ Len(item.japanese) >= 1

\* the query occurs in the expression
HoldsQuery(expression) ==
    \E n \in 1..(Len(expression) - Len(query) + 1) :
        SubSeq(expression, n, n + Len(query) - 1) = query

\* the candidates come from items of the response, in the response's order
InApiOrder ==
    /\ (found.value # <<>>) => "data" \in DOMAIN response
    /\ \E at \in [1..Len(found.value) -> 1..Len(Get(response, "data", <<>>))] :
          /\ \A i, j \in DOMAIN at : i < j => at[i] < at[j]
          /\ \A i \in DOMAIN at :
                /\ HasForm(response.data[at[i]])
                /\ FirstForm(response.data[at[i]]) = Candidate(i).expression

\* C19: every word jisho.search_words_containing_kanji returns contains
\* the searched kanji, the words come in the order of the API response,
\* and an empty query returns an empty list without a request.
C19_ResultsHoldTheKanji ==
    (found.called /\ found.module = "jisho") =>
        /\ (query = <<>>) =>
              (~found.requested /\ ~found.raised /\ found.value = <<>>)
        /\ (query # <<>> /\ ~found.raised) =>
              /\ \A i \in 1..Len(found.value) : HoldsQuery(Candidate(i).expression)
              /\ InApiOrder

\* a response of three items whose first lacks the kanji: the two others
\* are returned in their order
C19_Witness ==
    /\ Searched /\ found.module = "jisho" /\ query # <<>>
    /\ "data" \in DOMAIN response
    /\ Len(response.data) = 3
    /\ Len(found.value) = 2
    /\ HasForm(response.data[1])
    /\ ~HoldsQuery(FirstForm(response.data[1]))
    /\ Candidate(1).expression # Candidate(2).expression

\* the string the search makes of one list of a sense
Joined(sense, key) == join(SemiSp, Get(sense, key, <<>>))

\* the candidate pairs the definitions and the parts of speech of the
\* senses of the item, sense by sense
PairedWith(candidate, item) ==
    /\ HasForm(item)
    /\ FirstForm(item) = candidate.expression
    /\ Len(candidate.definitions) <= Len(Get(item, "senses", <<>>))
    /\ \A n \in 1..Len(candidate.definitions) :
          /\ candidate.definitions[n] = Joined(item.senses[n], "english_definitions")
          /\ n <= Len(candidate.parts_of_speech)
          /\ candidate.parts_of_speech[n] = Joined(item.senses[n], "parts_of_speech")

\* C20: every candidate of jisho.search_words_containing_kanji has as many
\* parts of speech as definitions, at most 3 of each, and its i-th part of
\* speech and i-th definition come from the same sense of its API item.
C20_PartsOfSpeechPaired ==
    (Searched /\ found.module = "jisho") =>
        \A i \in 1..Len(found.value) :
            /\ Len(Candidate(i).parts_of_speech) = Len(Candidate(i).definitions)
            /\ Len(Candidate(i).definitions) <= 3
            /\ \E k \in 1..Len(response.data) :
                  PairedWith(Candidate(i), response.data[k])

\* a candidate of an item with four senses: three definitions, one empty
\* part of speech among three that differ
C20_Witness ==
    /\ Searched /\ found.module = "jisho"
    /\ \E i \in 1..Len(found.value) :
          /\ Len(Candidate(i).definitions) = 3
          /\ Candidate(i).parts_of_speech[1] = Noun \o SemiSp \o Suffix
          /\ Candidate(i).parts_of_speech[2] = Noun
          /\ Candidate(i).parts_of_speech[3] = <<>>

\* C17: every element get_reviewed_kanji returns is one character in the
\* range 0x4E00..0x9FFF, whatever the Kanji fields of the cards hold.
C17_ReviewedAreKanji ==
    (call.called /\ call.reviewed.failed # "notcalled") =>
        \A kanji \in ReviewedSet :
            Len(kanji) = 1 /\ kanji[1] >= 19968 /\ kanji[1] <= 40959

\* the Front field of the card shows the word: as the base text of its
\* first ruby tag, or as its whole text when it holds no "<" at all
ShowsWord(card, word) ==
    /\ "Front" \in DOMAIN card.fields
    /\ "value" \in DOMAIN card.fields.Front
    /\ LET text == front_cleaned(card.fields.Front.value)
           rubies == { p \in 1..Len(text) : OccursAt(text, p, RubyTag) }
       IN \/ /\ rubies # {}
             /\ LET from == SetMin(rubies) + Len(RubyTag)
                     rts == { e \in from..Len(text) : OccursAt(text, e, RtTag) }
                 IN rts # {} /\ word = strip(SubSeq(text, from, SetMin(rts) - 1))
          \/ /\ \A n \in 1..Len(text) : text[n] # 60
             /\ word = text

\* a request of the call failed, or a card came without the value of its
\* Front field
VocabFailure ==
    \/ ~vocab.net.findCards
    \/ vocab_deck # <<>> /\ ~vocab.net.cardsInfo
    \/ \E k \in 1..Len(vocab_deck) :
          "Front" \in DOMAIN vocab_deck[k].fields
              /\ "value" \notin DOMAIN vocab_deck[k].fields.Front

\* C18: get_reviewed_vocab never raises; every element of its list is a
\* non-empty string, the base text of the first ruby tag of a card or the
\* cleaned text of a card without HTML, in the order of the cards; when a
\* request fails the list is empty.
C18_VocabWordsOrEmpty ==
    vocab.called =>
        /\ ~vocab.raised
        /\ \A i \in 1..Len(vocab.value) : vocab.value[i] # <<>>
        /\ VocabFailure => vocab.value = <<>>
        /\ \E at \in [1..Len(vocab.value) -> 1..Len(vocab_deck)] :
              /\ \A i, j \in DOMAIN at : i < j => at[i] < at[j]
              /\ \A i \in DOMAIN at : ShowsWord(vocab_deck[at[i]], vocab.value[i])

\* a call that had taken gakkou from a ruby tag when a card without value
\* made it fail: the list returned is empty
C18_Witness ==
    /\ vocab.called
    /\ vocab.failed = "extract"
    /\ vocab.partial = << <<Ch.gaku, Ch.kou>> >>
    /\ vocab.value = <<>>
    /\ ~vocab.raised

\* the call of add_vocab_note_to_deck returned
Added == added.called /\ ~added.raised

\* the notes of the addNotes request of the call, none when none was sent
NotesAdded ==
    IF \E r \in 1..Len(added.sent) : added.sent[r].action = "addNotes"
    THEN added.sent[CHOOSE r \in 1..Len(added.sent) :
                        added.sent[r].action = "addNotes"].notes
    ELSE <<>>

\* the prepared notes canAddNotes reported as addable, in their order
RECURSIVE Addable(_)
Addable(n) ==
    IF n = 0 THEN <<>>
    ELSE IF can_add[n] THEN Append(Addable(n - 1), added.prepared[n])
    ELSE Addable(n - 1)

\* C14: a call that returns has sent in addNotes exactly the prepared
\* notes canAddNotes reported as addable, in their original order (no
\* addNotes request when there is none), has prepared one note for each
\* selected word, and its two counts add up to the number of selected
\* words.
C14_AddsTheAddableNotes ==
    (Added /\ selected_words # <<>>) =>
        /\ Len(added.prepared) = Len(selected_words)
        /\ \A i \in 1..Len(selected_words) :
              added.prepared[i].fields["Expression"] = selected_words[i].expression
        /\ NotesAdded = Addable(Len(added.prepared))
        /\ added.added_count = Len(NotesAdded)
        /\ added.added_count + added.duplicates_count = Len(selected_words)

\* a call with two words of which canAddNotes refused the first: the
\* note of the second alone is sent
C14_Witness ==
    /\ Added
    /\ Len(selected_words) = 2
    /\ ~can_add[1] /\ can_add[2]
    /\ Len(NotesAdded) = 1
    /\ NotesAdded[1].fields["Expression"] = selected_words[2].expression
    /\ selected_words[1] # selected_words[2]
    /\ added.duplicates_count = 1

\* C15: every note a call of add_vocab_note_to_deck submits to Anki
\* targets the deck named by the deckname argument of the call.
C15_NotesTargetTheDeck ==
    added.called =>
        \A r \in 1..Len(added.sent) :
            added.sent[r].action = "addNotes" =>
                \A n \in 1..Len(added.sent[r].notes) :
                    /\ "deckName" \in DOMAIN added.sent[r].notes[n]
                    /\ added.sent[r].notes[n].deckName = deckname

\* the field of the note exists and holds the text
FieldIs(note, name, text) == name \in DOMAIN note.fields /\ note.fields[name] = text

\* the definitions after the first, joined by line feeds
RECURSIVE LinesOf(_)
LinesOf(definitions) ==
    IF definitions = <<>> THEN <<>>
    ELSE IF Len(definitions) = 1 THEN definitions[1]
    ELSE definitions[1] \o <<10>> \o LinesOf(Tail(definitions))

\* C16: the note prepare_note makes of a word has the model
\* MyJapaneseVocabulary, the first definition in Back and in Primary
\* Definition, the expression and the kana in Expression and Kana
\* Reading, the first part of speech in Grammar, the other definitions,
\* one per line, in Additional Definitions, 'JLPT N<level>' in JLPT, and
\* allowDuplicate false.
C16_PreparedNoteFields ==
    added.called =>
        \A i \in 1..Len(added.prepared) :
            LET note == added.prepared[i]
                word == selected_words[i]
            IN /\ note.modelName = "MyJapaneseVocabulary"
               /\ FieldIs(note, "Back", word.definitions[1])
               /\ FieldIs(note, "Expression", word.expression)
               /\ FieldIs(note, "Kana Reading", word.kana)
               /\ FieldIs(note, "Grammar", word.parts_of_speech[1])
               /\ FieldIs(note, "Additional Definitions", LinesOf(Tail(word.definitions)))
               /\ FieldIs(note, "JLPT", <<74, 76, 80, 84, 32, 78, 48 + word.jlpt>>)
               /\ note.options.allowDuplicate = FALSE
               /\ FieldIs(note, "Primary Definition", word.definitions[1])

\* what the prepared notes do carry: the first definition is in the
\* field Definition
PreparedNoteOtherFields ==
    added.called =>
        \A i \in 1..Len(added.prepared) :
            LET note == added.prepared[i]
                word == selected_words[i]
            IN /\ note.modelName = "MyJapaneseVocabulary"
               /\ FieldIs(note, "Back", word.definitions[1])
               /\ FieldIs(note, "Definition", word.definitions[1])
               /\ FieldIs(note, "Expression", word.expression)
               /\ FieldIs(note, "Kana Reading", word.kana)
               /\ FieldIs(note, "Grammar", word.parts_of_speech[1])
               /\ FieldIs(note, "Additional Definitions", LinesOf(Tail(word.definitions)))
               /\ FieldIs(note, "JLPT", <<74, 76, 80, 84, 32, 78, 48 + word.jlpt>>)
               /\ note.options.allowDuplicate = FALSE

\* the candidates of the list passed other than the original kanji
Filtered == SelectSeq(call.input, LAMBDA w : w.word # original_kanji)

\* an output entry without its annotation
WithoutPriority(entry) == [k \in (DOMAIN entry) \ {"priority"} |-> entry[k]]

\* C30: for every limit >= 0 the output has exactly min(limit, number of
\* candidates left after the filter) entries, and the entries are filtered
\* input candidates with a priority added and nothing else changed, each
\* input candidate used at most once.
C30_ExactCountOfInputs ==
    (Returned /\ call.limit >= 0) =>
        /\ Len(Output) = (IF call.limit < Len(Filtered) THEN call.limit ELSE Len(Filtered))
        /\ \A i \in 1..Len(Output) : "priority" \in DOMAIN Output[i]
        /\ \E from \in [1..Len(Output) -> 1..Len(Filtered)] :
              /\ \A i, j \in 1..Len(Output) : i # j => from[i] # from[j]
              /\ \A i \in 1..Len(Output) : WithoutPriority(Output[i]) = Filtered[from[i]]

\* a call with limit 2 on a list of which three candidates pass the filter
C30_Witness ==
    /\ Returned
    /\ call.limit = 2
    /\ Len(Filtered) = 3
    /\ Len(Output) = 2
    /\ Output[1].word # Output[2].word

\* a note of the selection cannot be prepared: jisho.org does not answer,
\* has no page for the word, or the word has no definition
PreparationFails ==
    /\ selected_words # <<>>
    /\ \/ ~added.net.furigana
       \/ \E i \in 1..Len(selected_words) :
             \/ WordPage(selected_words[i].expression) = None
             \/ selected_words[i].definitions = <<>>

\* the positions of the events of a kind
EventsOf(kind) == { e \in 1..Len(added.events) : added.events[e].kind = kind }

\* C28: in a call of add_vocab_note_to_deck every note is prepared before
\* any request goes to Anki, canAddNotes comes before addNotes, addNotes is
\* sent at most once and never with an empty list, an empty selection
\* sends nothing, and a failing preparation leaves Anki without request.
C28_PrepareThenAskThenAdd ==
    added.called =>
        /\ \A p \in EventsOf("prepare_note") :
              \A r \in EventsOf("canAddNotes") \cup EventsOf("addNotes") : p < r
        /\ \A a \in EventsOf("addNotes") : \E c \in EventsOf("canAddNotes") : c < a
        /\ Cardinality(EventsOf("addNotes")) <= 1
        /\ Cardinality(EventsOf("addNotes")) =
              Cardinality({ r \in 1..Len(added.sent) : added.sent[r].action = "addNotes" })
        /\ \A r \in 1..Len(added.sent) :
              added.sent[r].action = "addNotes" => added.sent[r].notes # <<>>
        /\ (selected_words = <<>>) => (added.sent = <<>> /\ added.events = <<>>)
        /\ PreparationFails => (added.sent = <<>> /\ added.raised)
        /\ (EventsOf("canAddNotes") # {}) =>
              Cardinality(EventsOf("prepare_note")) = Len(selected_words)

\* a call that prepared two notes and then sent both requests
C28_Witness ==
    /\ added.called
    /\ Len(selected_words) = 2
    /\ Cardinality(EventsOf("prepare_note")) = 2
    /\ EventsOf("canAddNotes") = {3}
    /\ EventsOf("addNotes") = {4}

\* a step of the call failed: a preparation, canAddNotes, or addNotes when
\* there was a note to add
AddFails ==
    \/ PreparationFails
    \/ selected_words # <<>> /\ ~added.net.canAddNotes
    \/ /\ selected_words # <<>>
       /\ ~added.net.addNotes
       /\ \E i \in 1..Len(can_add) : can_add[i]

\* C29: when preparing the notes or one of the two requests fails, the
\* call raises an exception whose message starts with 'Failed to add words
\* to Anki' and carries the text of the original error.
C29_FailedToAddMessage ==
    (added.called /\ AddFails) =>
        /\ added.raised
        /\ added.error = "Exception"
        /\ Len(added.message) = 2
        /\ added.message[1] = "Failed to add words to Anki: "

\* C22: is_kanji(s) is true exactly when s is one character whose code
\* point lies in 0x4E00..0x9FFF; it is false for hiragana, katakana, Latin
\* letters, digits and every string whose length is not 1.
C22_KanjiBlockOnly ==
    returned.called =>
        /\ returned.value <=> (Len(argument) = 1 /\ argument[1] \in 19968..40959)
        /\ (Len(argument) # 1) => ~returned.value
        /\ (argument \in { <<12354>>, <<12450>>, <<97>>, <<65>>, <<49>> })
              => ~returned.value

\* the last code point of the block is a kanji
C22_Witness == returned.called /\ argument = <<40959>> /\ returned.value = TRUE

\* the word shown on the page
Word == argument.word
KanjiAt == { i \in 1..Len(Word) : Word[i] \in 19968..40959 }
HiraganaAt == { i \in 1..Len(Word) : Word[i] \in 12352..12447 }
\* a kanji with its own reading in brackets, a hiragana with one space
Piece(i) ==
    IF i \in KanjiAt
    THEN <<Word[i], 91>> \o argument.kanji[Cardinality({ j \in KanjiAt : j <= i })]
                         \o <<93>>
    ELSE <<Word[i], 32>>
PerCharacter == join(<<>>, [i \in 1..Len(Word) |-> Piece(i)])
WholeWord == Word \o <<91>> \o join(<<>>, argument.kanji) \o <<93>>

\* C21: fetch_jisho_word_furigana gives, when there are as many furigana
\* segments as kanji in the word, the characters of the word in order,
\* each kanji followed by its own furigana in brackets and each hiragana
\* by one space (for a word of kanji and hiragana), and otherwise the
\* whole word followed by all furigana in one pair of brackets.
C21_FuriganaFormat ==
    (returned.called /\ argument.ok /\ argument.found) =>
        IF Len(argument.kanji) = Cardinality(KanjiAt)
        THEN (KanjiAt \cup HiraganaAt = 1..Len(Word)) =>
                 (~returned.raised /\ returned.value = PerCharacter)
        ELSE ~returned.raised /\ returned.value = WholeWord

\* a hiragana, a kanji with its reading and a hiragana again
C21_Witness ==
    /\ returned.called /\ argument.ok /\ argument.found /\ argument.padded
    /\ Word = <<12362, 23398, 12427>>
    /\ argument.kanji = << <<12364, 12387>> >>
    /\ returned.value = <<12362, 32, 23398, 91, 12364, 12387, 93, 12427, 32>>

\* the text typed, and its whitespace-separated tokens by first position
Typed == argument.text
Blank(c) == c \in {9, 10, 32}
TokenStarts ==
    { i \in 1..Len(Typed) : ~Blank(Typed[i]) /\ (i = 1 \/ Blank(Typed[i - 1])) }
TokenEnd(i) ==
    CHOOSE j \in i..Len(Typed) :
        /\ \A k \in i..j : ~Blank(Typed[k])
        /\ j = Len(Typed) \/ Blank(Typed[j + 1])
Token(i) == SubSeq(Typed, i, TokenEnd(i))
IntegerStarts == { i \in TokenStarts : int_parse(Token(i)) # None }

\* C23: parse_selection never raises; it returns, in input order, the
\* integers of the whitespace-separated tokens that parse as integers,
\* skipping every other token, and an empty list for empty input.
C23_IntegersInOrder ==
    returned.called =>
        /\ ~returned.raised
        /\ (argument.type = "str") =>
              /\ Len(returned.value) = Cardinality(IntegerStarts)
              /\ \E at \in [1..Len(returned.value) -> IntegerStarts] :
                    /\ \A k, l \in 1..Len(returned.value) : k < l => at[k] < at[l]
                    /\ \A k \in 1..Len(returned.value) :
                          returned.value[k] = int_parse(Token(at[k]))[1]
        /\ (argument.type # "str" \/ Typed = <<>>) => returned.value = <<>>

\* "a", a tab and "-1" typed: the token after the skipped one is returned
C23_Witness ==
    /\ returned.called
    /\ Typed = <<97, 9, 45, 49>>
    /\ returned.value = <<-1>>

\* the response reports an error: a non-empty error field
Reported ==
    /\ "error" \in DOMAIN argument.data
    /\ argument.data.error.type = "string"
    /\ argument.data.error.text # <<>>

\* C24: send_request returns the result field of the response when the
\* response carries no error, and raises when the error field is not
\* empty or the HTTP request fails; no result comes with a reported error.
C24_ResultOrException ==
    returned.called =>
        /\ (argument.failure = "none" /\ ~Reported) =>
              /\ ~returned.raised
              /\ returned.result = (IF "result" \in DOMAIN argument.data
                                    THEN argument.data.result ELSE JsonNull)
        /\ (argument.failure # "none" \/ Reported) =>
              (returned.raised /\ returned.result = <<>>)

\* an answer with an empty error text gives its result
C24_Witness ==
    /\ returned.called /\ ~returned.raised
    /\ argument.failure = "none"
    /\ DOMAIN argument.data = {"result", "error"}
    /\ argument.data.error = JsonString(<<>>)
    /\ returned.result = [type |-> "list", items |-> <<1, 2>>]

\* the k-th token that is an integer, and the indices selected, in the
\* order typed
NthInteger(k) ==
    CHOOSE i \in IntegerStarts : Cardinality({ j \in IntegerStarts : j <= i }) = k
SelectedIndices ==
    [k \in 1..Cardinality(IntegerStarts) |-> int_parse(Token(NthInteger(k)))[1]]
InRange ==
    SelectSeq(SelectedIndices, LAMBDA n : 1 <= n /\ n <= Len(argument.displayed))

\* C25: process_word_selection appends to the pending list exactly the
\* displayed words at the selected 1-based indices within
\* 1..len(displayed_words), in selection order and once per occurrence of
\* an index; indices out of range are ignored, the earlier entries stay
\* in place, and without displayed words the list comes back unchanged.
C25_AppendsTheSelection ==
    returned.called =>
        /\ SubSeq(returned.value, 1, Len(argument.pending)) = argument.pending
        /\ IF argument.displayed = <<>>
           THEN returned.value = argument.pending
           ELSE returned.value =
                    argument.pending
                      \o [k \in 1..Len(InRange) |-> argument.displayed[InRange[k]]]

\* "2 2" typed on a table of two words: the second word is appended twice
\* after the word that was pending
C25_Witness ==
    /\ returned.called
    /\ Typed = <<50, 32, 50>>
    /\ Len(argument.displayed) = 2
    /\ Len(argument.pending) = 1
    /\ returned.value = <<argument.pending[1], argument.displayed[2],
                          argument.displayed[2]>>

====
